---- MODULE Spec2Model ----
(***************************************************************************)
(* PSD grading tool: the header reader, the decode ladder, the archive     *)
(* expanders, the scoring engine and the filename template matcher of      *)
(* src/src/public/utils/file-processor.js and src/unnamed/part_000.        *)
(*                                                                         *)
(* Strings of the program that are inspected character by character        *)
(* (filenames, patterns) are sequences of one-character strings; byte      *)
(* buffers are sequences of 0..255, indexed from 0 through Byte.           *)
(***************************************************************************)
EXTENDS Integers, Sequences, FiniteSets, TLC

VARIABLES
    \* analyzePSDData: one document going through the decode ladder
    data,        \* the byte buffer (uint8Data)
    outcomes,    \* what readPsd does at each of the three attempts
    pc,          \* position inside analyzePSDData
    basicInfo,   \* let basicInfo (Null until the header reader returns)
    attempt,     \* loop index i
    psd,         \* let psd
    parseError,  \* let parseError
    invoked,     \* the attempts invoked so far, in order
    ret,         \* what analyzePSDData gave its caller
    \* gradeFile
    criteria,    \* the criteria object handed to gradeFile
    grading,     \* the analysis handed to gradeFile
    graded,      \* the GradingResult gradeFile returned
    \* the batch loops
    handler,     \* which loop runs: FileProcessor.processFiles or app.post
    batch,       \* the uploaded files of one request
    fileIdx,     \* number of files consumed by the loop
    results,     \* const results / results.files
    response,    \* what processFiles returned / what the request answered
    zipRun,      \* the archive being expanded: entries consumed, results
    \* the template matchers
    tplPattern,  \* the configured pattern
    tplName,     \* the candidate filename
    tplCase,     \* the case-sensitivity setting
    tplResult,   \* what each matcher answered
    \* one call of a function that keeps no state
    callee,      \* the function called
    argument,    \* what it is called with
    returned     \* what it returned (Null before the call)

parseVars == <<data, outcomes, pc, basicInfo, attempt, psd, parseError, invoked, ret>>
gradeVars == <<criteria, graded, grading>>
batchVars == <<handler, batch, fileIdx, results, response, zipRun>>
tplVars   == <<tplPattern, tplName, tplCase, tplResult>>
callVars  == <<callee, argument, returned>>
vars      == <<parseVars, gradeVars, batchVars, tplVars, callVars>>

\* JavaScript's null / undefined
Null == [isNull |-> TRUE]

(***************************************************************************)
(* Byte buffers                                                            *)
(***************************************************************************)
\* data[i] of a Uint8Array
Byte(buf, i) == buf[i + 1]

\* '8BPS'
Signature == <<56, 66, 80, 83>>

\* data.slice(0, 4) compared with '8BPS'
HasSignature(buf) == SubSeq(buf, 1, 4) = Signature

getUint16LittleEndian(buf, off) == Byte(buf, off) + Byte(buf, off + 1) * 256

\* DataView.getUint16(off, false)
getUint16(buf, off) == Byte(buf, off) * 256 + Byte(buf, off + 1)

\* DataView.getUint32(off, false): an unsigned 32-bit value, kept as its two
\* 16-bit halves because it may exceed the checker's integer range
getUint32(buf, off) ==
    [hi |-> getUint16(buf, off), lo |-> getUint16(buf, off + 2)]

\* x > n and x <= 0 for an unsigned 32-bit x and 0 <= n < 65536
U32Gt(x, n) == x.hi > 0 \/ x.lo > n
U32LeqZero(x) == x.hi = 0 /\ x.lo = 0
U32Value(x) == x.hi * 65536 + x.lo

\* (data[o] << 24) | (data[o+1] << 16) | (data[o+2] << 8) | data[o+3]:
\* a signed 32-bit integer, negative when the top bit is set
ShiftOr32(buf, off) ==
    LET b0 == Byte(buf, off)
        rest == Byte(buf, off + 1) * 65536 + Byte(buf, off + 2) * 256
                    + Byte(buf, off + 3)
    IN  IF b0 >= 128 THEN (b0 - 256) * 16777216 + rest
                     ELSE b0 * 16777216 + rest

\* (data[o] << 8) | data[o+1]
ShiftOr16(buf, off) == Byte(buf, off) * 256 + Byte(buf, off + 1)

(***************************************************************************)
(* Header Reader: FileProcessor.extractBasicPSDInfo                        *)
(***************************************************************************)
KnownColorModes == {0, 1, 2, 3, 4, 7, 8, 9}

colorModes(code) ==
    CASE code = 0 -> "Bitmap"
      [] code = 1 -> "Grayscale"
      [] code = 2 -> "Indexed"
      [] code = 3 -> "RGB"
      [] code = 4 -> "CMYK"
      [] code = 7 -> "Multichannel"
      [] code = 8 -> "Duotone"
      [] code = 9 -> "Lab"

\* colorModes[colorMode] || `Unknown (${colorMode})`
ColorModeName(code) ==
    IF code \in KnownColorModes THEN colorModes(code)
    ELSE "Unknown (" \o ToString(code) \o ")"

MaxDimension == 30000

Thrown(msg) == [ok |-> FALSE, error |-> msg]
Returned(v) == [ok |-> TRUE, value |-> v]

\* the try block (lines 315-359): signature, DataView reads, validation
HeaderTry(buf) ==
    IF ~HasSignature(buf) THEN Thrown("Invalid PSD signature")
    ELSE
    LET version == getUint16(buf, 4)
        height == getUint32(buf, 14)
        width == getUint32(buf, 18)
        depth == getUint16(buf, 22)
        colorMode == getUint16(buf, 24)
    IN  IF U32LeqZero(width) \/ U32LeqZero(height)
            \/ U32Gt(width, MaxDimension) \/ U32Gt(height, MaxDimension)
        THEN Thrown("Invalid dimensions detected")
        ELSE IF depth \notin {1, 8, 16, 32}
        THEN Thrown("Invalid bit depth detected")
        ELSE Returned([width |-> U32Value(width),
                       height |-> U32Value(height),
                       bitDepth |-> depth,
                       colorMode |-> ColorModeName(colorMode),
                       version |-> version,
                       rawColorMode |-> colorMode])

\* the catch block (lines 360-387): whatever the try block threw, the header
\* is read again by array access and returned when the dimensions look sane
HeaderCatch(buf, thrown) ==
    LET width == ShiftOr32(buf, 18)
        height == ShiftOr32(buf, 14)
        depth == ShiftOr16(buf, 22)
        colorMode == ShiftOr16(buf, 24)
    IN  IF width > 0 /\ height > 0 /\ width < MaxDimension /\ height < MaxDimension
        THEN Returned([width |-> width,
                       height |-> height,
                       bitDepth |-> IF depth = 0 THEN 8 ELSE depth,
                       colorMode |-> IF colorMode \in KnownColorModes
                                     THEN colorModes(colorMode) ELSE "RGB",
                       version |-> 1,
                       rawColorMode |-> colorMode])
        ELSE thrown

HeaderSize == 26

extractBasicPSDInfo(buf) ==
    IF Len(buf) < HeaderSize THEN Thrown("File too small to be a PSD")
    ELSE LET first == HeaderTry(buf)
         IN  IF first.ok THEN first ELSE HeaderCatch(buf, first)

(***************************************************************************)
(* Strings inspected character by character                                *)
(***************************************************************************)
Background == <<"B", "a", "c", "k", "g", "r", "o", "u", "n", "d">>
UnnamedLayer == <<"U", "n", "n", "a", "m", "e", "d", " ", "L", "a", "y", "e", "r">>

(***************************************************************************)
(* Feature Extractor: FileProcessor.getLayerType, extractLayers            *)
(*                                                                         *)
(* A decoded layer is a record; an optional member m of the decoded tree   *)
(* is a flag (hasText, hasChildren, ...) beside its value.                 *)
(***************************************************************************)
getLayerType(layer) ==
    IF layer.hasText THEN "text"
    ELSE IF layer.hasAdjustment THEN "adjustment"
    ELSE IF layer.hasPlacedLayer THEN "smartObject"
    ELSE IF layer.hasVectorMask \/ layer.hasVectorStroke THEN "shape"
    ELSE IF layer.hasChildren THEN "group"
    ELSE "raster"

\* lines 449-454 and 478-483: fontName from text.style, then from the first
\* entry of text.styles when that entry names a font (<<>> is undefined or '')
FontName(text) ==
    LET fromStyle == IF text.style # Null THEN text.style.fontName ELSE <<>>
    IN  IF text.styles # <<>> /\ text.styles[1].font # <<>>
        THEN text.styles[1].font ELSE fromStyle

\* lines 457-475: the Font of the first entry of the engine data's run array
FontPostScriptName(text) ==
    IF text.runArray # <<>> THEN text.runArray[1].Font ELSE <<>>

\* const layerInfo = {...} (lines 434-511)
LayerInfo(layer, depth) ==
    [name |-> IF layer.name = <<>> THEN UnnamedLayer ELSE layer.name,
     type |-> getLayerType(layer),
     visible |-> ~layer.hidden,
     depth |-> depth,
     isText |-> layer.hasText,
     fontName |-> IF layer.hasText THEN FontName(layer.text) ELSE <<>>,
     fontPostScriptName |->
         IF layer.hasText THEN FontPostScriptName(layer.text) ELSE <<>>,
     isAdjustment |-> layer.hasAdjustment,
     isSmartObject |-> layer.hasPlacedLayer,
     isVector |-> layer.hasVectorMask \/ layer.hasVectorStroke]

RECURSIVE processLayer(_, _)
RECURSIVE processLayers(_, _)

\* layers.push(layerInfo), then the children, each one level deeper
processLayer(layer, depth) ==
    <<LayerInfo(layer, depth)>>
        \o (IF layer.hasChildren THEN processLayers(layer.children, depth + 1)
            ELSE <<>>)

\* children.forEach(child => processLayer(child, depth))
processLayers(ls, depth) ==
    IF ls = <<>> THEN <<>>
    ELSE processLayer(Head(ls), depth) \o processLayers(Tail(ls), depth)

\* Array.prototype.reverse
Reverse(s) == [k \in 1..Len(s) |-> s[Len(s) + 1 - k]]

extractLayersUnreversed(doc) ==
    IF doc.hasChildren THEN processLayers(doc.children, 0) ELSE <<>>

extractLayers(doc) ==
    Reverse(IF doc.hasChildren THEN processLayers(doc.children, 0) ELSE <<>>)

(***************************************************************************)
(* Document Parser: FileProcessor.analyzePSDData                           *)
(***************************************************************************)
\* parseAttempts.length
NumAttempts == 3

\* Math.round(x / 100) for a value given in hundredths
RoundHundredths(x) == (x + 50) \div 100

DefaultResolution == 72

\* createFallbackAnalysis with width and height taken from each other's field
createFallbackAnalysisSwapped(info, filename, fileSize, note) ==
    [filename |-> filename,
     originalFilename |-> filename,
     width |-> info.height,
     height |-> info.width,
     colorMode |-> info.colorMode,
     bitDepth |-> info.bitDepth,
     resolution |-> DefaultResolution,
     hasTransparency |-> info.colorMode # "CMYK",
     layerCount |-> 1,
     layerNames |-> <<Background>>,
     layers |-> <<[name |-> Background, type |-> "raster", visible |-> TRUE,
                   opacity |-> 255, blendMode |-> "normal"]>>,
     fileSize |-> fileSize,
     parseNote |-> note,
     isLimitedParse |-> TRUE]

createFallbackAnalysis(info, filename, fileSize, note) ==
    [filename |-> filename,
     originalFilename |-> filename,
     width |-> info.width,
     height |-> info.height,
     colorMode |-> info.colorMode,
     bitDepth |-> info.bitDepth,
     resolution |-> DefaultResolution,
     hasTransparency |-> info.colorMode # "CMYK",
     layerCount |-> 1,
     layerNames |-> <<Background>>,
     layers |-> <<[name |-> Background, type |-> "raster", visible |-> TRUE,
                   opacity |-> 255, blendMode |-> "normal"]>>,
     fileSize |-> fileSize,
     parseNote |-> note,
     isLimitedParse |-> TRUE]

\* lines 213-303: the analysis built from a decoded document
BuildAnalysis(doc, note, filename, fileSize) ==
    LET layers == extractLayers(doc)
    IN  [filename |-> filename,
         originalFilename |-> filename,
         width |-> doc.width,
         height |-> doc.height,
         colorMode |-> ColorModeName(doc.colorMode),
         bitDepth |-> IF doc.bitsPerChannel = 0 THEN 8 ELSE doc.bitsPerChannel,
         resolution |-> IF doc.hasResolutionInfo /\ doc.horizontalResolution # 0
                        THEN RoundHundredths(doc.horizontalResolution)
                        ELSE DefaultResolution,
         hasTransparency |-> doc.channels >= 4,
         layerCount |-> Len(layers),
         layerNames |-> [k \in 1..Len(layers) |-> layers[k].name],
         layers |-> layers,
         fileSize |-> fileSize,
         parseNote |-> note]

\* the note numbered by the loop index instead of the attempt number
UsedFallbackLoopIndex(i) == "Used fallback parsing method " \o ToString(i)

\* `Used fallback parsing method ${i + 1}`
UsedFallback(i) == "Used fallback parsing method " \o ToString(i + 1)

\* the last attempt's failure raised without looking at basicInfo
ExhaustedLadderAlwaysThrows(info, filename, fileSize, message) ==
    Thrown("Unable to analyze PSD file: " \o message)

\* lines 201-209: the last attempt has raised
ExhaustedLadder(info, filename, fileSize, message) ==
    IF info # Null
    THEN Returned(createFallbackAnalysis(info, filename, fileSize,
             <<info.colorMode \o " file - header analysis only">>))
    ELSE Thrown("Unable to analyze PSD file: " \o message)

\* the loop without its break
AttemptStepWithoutBreak(i, out, note, info, filename, fileSize) ==
    IF ~out.raises /\ i = NumAttempts - 1
    THEN [goto |-> "extract", psd |-> out.psd,
          parseError |-> <<UsedFallback(i)>>, ret |-> Null]
    ELSE IF out.raises /\ i = NumAttempts - 1
    THEN [goto |-> "done", psd |-> Null, parseError |-> <<out.message>>,
          ret |-> ExhaustedLadder(info, filename, fileSize, out.message)]
    ELSE [goto |-> "ladder", psd |-> out.psd,
          parseError |-> IF out.raises THEN <<out.message>> ELSE note,
          ret |-> Null]

\* one pass through the body of the for loop (lines 191-211) at index i:
\* what becomes of psd and parseError, and where control goes next.
\* parseError is <<>> for null and <<message>> otherwise.
AttemptStep(i, out, note, info, filename, fileSize) ==
    IF ~out.raises
    THEN [goto |-> "extract", psd |-> out.psd,
          parseError |-> IF i > 0 THEN <<UsedFallback(i)>> ELSE note,
          ret |-> Null]
    ELSE IF i = NumAttempts - 1
    THEN [goto |-> "done", psd |-> Null, parseError |-> <<out.message>>,
          ret |-> ExhaustedLadder(info, filename, fileSize, out.message)]
    ELSE [goto |-> "ladder", psd |-> Null, parseError |-> <<out.message>>,
          ret |-> Null]

\* the header reader called under try/catch (lines 149-154)
HeaderOrNull(buf) ==
    LET h == extractBasicPSDInfo(buf) IN IF h.ok THEN h.value ELSE Null

RECURSIVE Ladder(_, _, _, _, _, _)
Ladder(outs, i, note, info, filename, fileSize) ==
    LET st == AttemptStep(i, outs[i + 1], note, info, filename, fileSize)
    IN  IF st.goto = "ladder"
        THEN Ladder(outs, i + 1, st.parseError, info, filename, fileSize)
        ELSE st

\* analyzePSDData as its caller sees it: Returned(analysis) or Thrown(message)
analyzePSDData(buf, outs, filename) ==
    LET st == Ladder(outs, 0, <<>>, HeaderOrNull(buf), filename, Len(buf))
    IN  IF st.goto = "done" THEN st.ret
        ELSE Returned(BuildAnalysis(st.psd, st.parseError, filename, Len(buf)))

(***************************************************************************)
(* JavaScript string operations on sequences of characters                 *)
(***************************************************************************)
UpperLetters ==
    <<"A", "B", "C", "D", "E", "F", "G", "H", "I", "J", "K", "L", "M",
      "N", "O", "P", "Q", "R", "S", "T", "U", "V", "W", "X", "Y", "Z">>
LowerLetters ==
    <<"a", "b", "c", "d", "e", "f", "g", "h", "i", "j", "k", "l", "m",
      "n", "o", "p", "q", "r", "s", "t", "u", "v", "w", "x", "y", "z">>
Letters == {UpperLetters[k] : k \in 1..26} \cup {LowerLetters[k] : k \in 1..26}
Digits == {"0", "1", "2", "3", "4", "5", "6", "7", "8", "9"}

UpperSet == {UpperLetters[k] : k \in 1..26}
LowerOf == [c \in UpperSet |-> LowerLetters[CHOOSE k \in 1..26 : UpperLetters[k] = c]]

LowerChar(c) == IF c \in UpperSet THEN LowerOf[c] ELSE c

\* String.prototype.toLowerCase
toLowerCase(str) == [k \in 1..Len(str) |-> LowerChar(str[k])]

\* str.substr(pos, Len(sub)) equals sub (pos counted from 1)
OccursAt(str, sub, pos) ==
    /\ pos + Len(sub) - 1 <= Len(str)
    /\ \A k \in 1..Len(sub) : str[pos + k - 1] = sub[k]

\* String.prototype.includes
includes(str, sub) == \E pos \in 1..(Len(str) + 1) : OccursAt(str, sub, pos)

\* String.prototype.endsWith
endsWith(str, suffix) ==
    Len(suffix) <= Len(str) /\ OccursAt(str, suffix, Len(str) - Len(suffix) + 1)

\* String.prototype.startsWith
startsWith(str, prefix) == OccursAt(str, prefix, 1)

DotPsd == <<".", "p", "s", "d">>
DotZip == <<".", "z", "i", "p">>

\* name.replace(/\.psd$/i, '')
StripPsd(name) ==
    IF endsWith(toLowerCase(name), DotPsd)
    THEN SubSeq(name, 1, Len(name) - 4) ELSE name

\* str.split(sep).pop(): what follows the last occurrence of the character
RECURSIVE AfterLast(_, _)
AfterLast(str, sep) ==
    IF \E k \in 1..Len(str) : str[k] = sep
    THEN AfterLast(SubSeq(str, (CHOOSE k \in 1..Len(str) : str[k] = sep) + 1,
                          Len(str)), sep)
    ELSE str

\* sub occurs at the head of str, letter case ignored when ci
HeadIs(str, sub, ci) ==
    /\ Len(sub) <= Len(str)
    /\ \A k \in 1..Len(sub) :
          IF ci THEN LowerChar(str[k]) = LowerChar(sub[k]) ELSE str[k] = sub[k]

\* str.replace(/needle/g, repl) and, with ci, str.replace(/needle/gi, repl)
RECURSIVE ReplaceAll(_, _, _, _)
ReplaceAll(str, needle, repl, ci) ==
    IF str = <<>> THEN <<>>
    ELSE IF HeadIs(str, needle, ci)
    THEN repl \o ReplaceAll(SubSeq(str, Len(needle) + 1, Len(str)), needle, repl, ci)
    ELSE <<Head(str)>> \o ReplaceAll(Tail(str), needle, repl, ci)

\* the characters of /[.*+?^${}()|\[\]\\]/
RegexSpecials ==
    {".", "*", "+", "?", "^", "$", "{", "}", "(", ")", "|", "[", "]", "\\"}

\* str.replace(/[.*+?^${}()|\[\]\\]/g, '\\$&')
RECURSIVE EscapeRegex(_)
EscapeRegex(str) ==
    IF str = <<>> THEN <<>>
    ELSE (IF Head(str) \in RegexSpecials THEN <<"\\", Head(str)>> ELSE <<Head(str)>>)
            \o EscapeRegex(Tail(str))

(***************************************************************************)
(* Regular expressions built by the template matchers                      *)
(*                                                                         *)
(* A compiled pattern is a sequence of atoms [set, any, lo, hi]: between   *)
(* lo and hi characters (hi = -1: no limit) of the set, or of any kind.    *)
(* The regex source the program assembles is a sequence of characters in   *)
(* which each placeholder's fragment stands as one element, its name.      *)
(***************************************************************************)
Lit(c) == [set |-> {c}, any |-> FALSE, lo |-> 1, hi |-> 1]
Cls(set, lo, hi) == [set |-> set, any |-> FALSE, lo |-> lo, hi |-> hi]
AnyChars(lo, hi) == [set |-> {}, any |-> TRUE, lo |-> lo, hi |-> hi]

PlaceholderNames == {"CLASS", "LASTNAME", "FIRSTNAME", "ASSIGNMENT", "NUMBER", "ANY"}

\* new RegExp(source): an escaped character is itself, a fragment is its atoms
RECURSIVE CompileSource(_, _)
CompileSource(src, fragment) ==
    IF src = <<>> THEN <<>>
    ELSE IF Head(src) \in PlaceholderNames
    THEN fragment[Head(src)] \o CompileSource(Tail(src), fragment)
    ELSE IF Head(src) = "\\" /\ Len(src) >= 2
    THEN <<Lit(src[2])>> \o CompileSource(SubSeq(src, 3, Len(src)), fragment)
    ELSE <<Lit(Head(src))>> \o CompileSource(Tail(src), fragment)

\* one character against one atom, under the i flag or not
CharMatches(c, atom, ci) ==
    \/ atom.any
    \/ c \in atom.set
    \/ ci /\ \E d \in atom.set : LowerChar(d) = LowerChar(c)

\* atoms[k..] match str[pos..] up to the end of str
RECURSIVE MatchToEnd(_, _, _, _, _)
MatchToEnd(atoms, k, str, pos, ci) ==
    IF k > Len(atoms) THEN pos = Len(str) + 1
    ELSE LET a == atoms[k]
             left == Len(str) - pos + 1
             most == IF a.hi = -1 \/ a.hi > left THEN left ELSE a.hi
         IN  \E n \in a.lo..most :
                /\ \A j \in 0..(n - 1) : CharMatches(str[pos + j], a, ci)
                /\ MatchToEnd(atoms, k + 1, str, pos + n, ci)

\* new RegExp('^' + source + '$', flags).test(str)
TestAnchored(atoms, str, ci) == MatchToEnd(atoms, 1, str, 1, ci)

(***************************************************************************)
(* Filename Pattern Matcher, template mode: three copies                   *)
(***************************************************************************)
LetterSet == Letters
SpaceDash == {" ", "-"}

PlaceholderChars ==
    [CLASS |-> <<"C", "L", "A", "S", "S">>,
     LASTNAME |-> <<"L", "A", "S", "T", "N", "A", "M", "E">>,
     FIRSTNAME |-> <<"F", "I", "R", "S", "T", "N", "A", "M", "E">>,
     ASSIGNMENT |-> <<"A", "S", "S", "I", "G", "N", "M", "E", "N", "T">>,
     NUMBER |-> <<"N", "U", "M", "B", "E", "R">>,
     ANY |-> <<"A", "N", "Y">>]

\* the order of the .replace() chains
PlaceholderOrder == <<"CLASS", "LASTNAME", "FIRSTNAME", "ASSIGNMENT", "NUMBER", "ANY">>

Braced(name) == <<"{">> \o PlaceholderChars[name] \o <<"}">>
Sentinel(name) == <<"<", "<", "<">> \o PlaceholderChars[name] \o <<">", ">", ">">>
EscapedBraced(name) ==
    <<"\\", "{">> \o toLowerCase(PlaceholderChars[name]) \o <<"\\", "}">>

\* .replace(/\{CLASS\}/gi, '<<<CLASS>>>') ... .replace(/\{ANY\}/gi, '<<<ANY>>>')
RECURSIVE ProtectFrom(_, _)
ProtectFrom(str, k) ==
    IF k > Len(PlaceholderOrder) THEN str
    ELSE ProtectFrom(ReplaceAll(str, Braced(PlaceholderOrder[k]),
                                Sentinel(PlaceholderOrder[k]), TRUE), k + 1)
ProtectPlaceholders(str) == ProtectFrom(str, 1)

\* .replace(/<<<CLASS>>>/g, fragment) ... .replace(/<<<ANY>>>/g, fragment)
RECURSIVE SubstituteFrom(_, _)
SubstituteFrom(str, k) ==
    IF k > Len(PlaceholderOrder) THEN str
    ELSE SubstituteFrom(ReplaceAll(str, Sentinel(PlaceholderOrder[k]),
                                   <<PlaceholderOrder[k]>>, FALSE), k + 1)
SubstituteSentinels(str) == SubstituteFrom(str, 1)

\* .replace(/\\\{class\\\}/gi, fragment) ... .replace(/\\\{any\\\}/gi, fragment)
RECURSIVE SubstituteEscapedFrom(_, _)
SubstituteEscapedFrom(str, k) ==
    IF k > Len(PlaceholderOrder) THEN str
    ELSE SubstituteEscapedFrom(ReplaceAll(str, EscapedBraced(PlaceholderOrder[k]),
                                          <<PlaceholderOrder[k]>>, TRUE), k + 1)
SubstituteEscaped(str) == SubstituteEscapedFrom(str, 1)

\* FileProcessor.checkFilename, lines 797-802
ProcessorFragments ==
    [CLASS |-> <<Cls(LetterSet, 2, 5), Cls(SpaceDash, 0, 1), Cls(Digits, 2, 4)>>,
     LASTNAME |-> <<Cls(LetterSet, 1, -1)>>,
     FIRSTNAME |-> <<Cls(LetterSet, 1, -1)>>,
     ASSIGNMENT |-> <<Cls(LetterSet, 0, -1), Cls(Digits, 1, 1),
                      Cls(LetterSet \cup Digits, 0, -1)>>,
     NUMBER |-> <<Cls(Digits, 1, -1)>>,
     ANY |-> <<AnyChars(1, -1)>>]

\* FilenamePatterns.validatePlaceholderPattern, lines 115-120
PreviewFragments ==
    [ProcessorFragments EXCEPT
        !.ASSIGNMENT = <<Cls(LetterSet, 0, -1), Cls(SpaceDash, 0, 1),
                         Cls(Digits, 1, -1)>>]

\* validatePlaceholderPattern of the server, lines 1191-1196
ServerFragments ==
    [ProcessorFragments EXCEPT
        !.LASTNAME = <<Cls(LetterSet \cup {"-"}, 1, -1)>>,
        !.FIRSTNAME = <<Cls(LetterSet \cup {"-"}, 1, -1)>>,
        !.ASSIGNMENT = <<Cls(LetterSet, 0, -1), Cls(SpaceDash, 0, 1),
                         Cls(Digits, 1, -1), Cls(LetterSet, 0, 1)>>]

\* the pattern-to-regex pipeline with the anchors left off:
\* the compiled pattern may end before the candidate does
RECURSIVE MatchPrefix(_, _, _, _, _)
MatchPrefix(atoms, k, str, pos, ci) ==
    IF k > Len(atoms) THEN TRUE
    ELSE LET a == atoms[k]
             left == Len(str) - pos + 1
             most == IF a.hi = -1 \/ a.hi > left THEN left ELSE a.hi
         IN  \E n \in a.lo..most :
                /\ \A j \in 0..(n - 1) : CharMatches(str[pos + j], a, ci)
                /\ MatchPrefix(atoms, k + 1, str, pos + n, ci)

TemplateTestUnanchored(checkPattern, checkName, fragments, ci) ==
    LET atoms == CompileSource(
                    SubstituteSentinels(EscapeRegex(ProtectPlaceholders(checkPattern))),
                    fragments)
    IN  \E pos \in 1..(Len(checkName) + 1) : MatchPrefix(atoms, 1, checkName, pos, ci)

\* protect, escape, substitute, anchor, test (lines 784-806 and 102-124)
TemplateTest(checkPattern, checkName, fragments, ci) ==
    TestAnchored(
        CompileSource(
            SubstituteSentinels(EscapeRegex(ProtectPlaceholders(checkPattern))),
            fragments),
        checkName, ci)

\* FilenamePatterns.validatePlaceholderPattern (the interactive preview)
PreviewValidatePlaceholderPattern(filename, pattern, caseSensitive) ==
    LET checkName == IF caseSensitive THEN filename ELSE toLowerCase(filename)
        checkPattern == IF caseSensitive THEN pattern ELSE toLowerCase(pattern)
    IN  TemplateTest(checkPattern, checkName, PreviewFragments, ~caseSensitive)

\* escape, substitute the escaped placeholders, anchor, test (lines 1189-1200)
ServerTemplateTest(checkPattern, checkName, ci) ==
    TestAnchored(
        CompileSource(SubstituteEscaped(EscapeRegex(checkPattern)), ServerFragments),
        checkName, ci)

\* validatePlaceholderPattern of the server
validatePlaceholderPattern(filename, pattern, caseSensitive) ==
    LET checkName == IF caseSensitive THEN filename ELSE toLowerCase(filename)
        checkPattern == IF caseSensitive THEN pattern ELSE toLowerCase(pattern)
    IN  ServerTemplateTest(checkPattern, checkName, ~caseSensitive)

\* every pattern taken to compile
RegexCompilesAlways(pattern) == TRUE

\* user-supplied regular expressions are modelled for patterns of ordinary
\* characters, which search the name, and for patterns with an unclosed
\* group or class, on which new RegExp throws a SyntaxError
RegexCompiles(pattern) ==
    /\ Cardinality({k \in 1..Len(pattern) : pattern[k] = "("})
         = Cardinality({k \in 1..Len(pattern) : pattern[k] = ")"})
    /\ Cardinality({k \in 1..Len(pattern) : pattern[k] = "["})
         = Cardinality({k \in 1..Len(pattern) : pattern[k] = "]"})

RegexTest(pattern, str, ci) ==
    IF ci THEN includes(toLowerCase(str), toLowerCase(pattern))
    ELSE includes(str, pattern)

\* FilenamePatterns.validateFilename
PreviewValidateFilename(filename, pattern, patternType, caseSensitive) ==
    LET nameWithoutExt == StripPsd(filename)
        checkName == IF caseSensitive THEN nameWithoutExt
                     ELSE toLowerCase(nameWithoutExt)
        checkPattern == IF caseSensitive THEN pattern ELSE toLowerCase(pattern)
    IN  CASE patternType = "exact" -> checkName = checkPattern
          [] patternType = "contains" -> includes(checkName, checkPattern)
          [] patternType = "regex" ->
                IF RegexCompiles(pattern)
                THEN RegexTest(pattern, nameWithoutExt, ~caseSensitive)
                ELSE FALSE
          [] OTHER -> PreviewValidatePlaceholderPattern(nameWithoutExt, pattern,
                                                        caseSensitive)

ClassNameAssignment ==
    Braced("CLASS") \o <<"_">> \o Braced("LASTNAME") \o <<"_">> \o Braced("ASSIGNMENT")
NameClassAssignment ==
    Braced("LASTNAME") \o <<"_">> \o Braced("CLASS") \o <<"_">> \o Braced("ASSIGNMENT")
AssignmentNameClass ==
    Braced("ASSIGNMENT") \o <<"_">> \o Braced("LASTNAME") \o <<"_">> \o Braced("CLASS")

\* validateFilenamePattern of the server
validateFilenamePattern(filename, pattern, patternType, caseSensitive) ==
    LET nameWithoutExt == StripPsd(filename)
        checkName == IF caseSensitive THEN nameWithoutExt
                     ELSE toLowerCase(nameWithoutExt)
        checkPattern == IF caseSensitive THEN pattern ELSE toLowerCase(pattern)
    IN  CASE patternType = "class_name_assignment" ->
                validatePlaceholderPattern(nameWithoutExt, ClassNameAssignment,
                                           caseSensitive)
          [] patternType = "name_class_assignment" ->
                validatePlaceholderPattern(nameWithoutExt, NameClassAssignment,
                                           caseSensitive)
          [] patternType = "assignment_name_class" ->
                validatePlaceholderPattern(nameWithoutExt, AssignmentNameClass,
                                           caseSensitive)
          [] patternType = "exact" -> checkName = checkPattern
          [] patternType = "contains" -> includes(checkName, checkPattern)
          [] patternType = "regex" ->
                IF RegexCompiles(pattern)
                THEN RegexTest(pattern, nameWithoutExt, ~caseSensitive)
                ELSE FALSE
          [] OTHER -> validatePlaceholderPattern(nameWithoutExt, pattern,
                                                 caseSensitive)

\* FileProcessor.checkFilename; caseSensitive is criteria.filenameCaseSensitive = 'yes'
checkFilename(filename, pattern, patternType, caseSensitive) ==
    LET baseFilename == AfterLast(AfterLast(filename, "/"), "\\")
        nameWithoutExt == StripPsd(baseFilename)
        checkName == IF caseSensitive THEN nameWithoutExt
                     ELSE toLowerCase(nameWithoutExt)
        checkPattern == IF caseSensitive THEN pattern ELSE toLowerCase(pattern)
    IN  CASE patternType = "exact" -> checkName = checkPattern
          [] patternType = "contains" -> includes(checkName, checkPattern)
          [] patternType = "regex" ->
                IF RegexCompiles(pattern)
                THEN RegexTest(pattern, nameWithoutExt, ~caseSensitive)
                ELSE FALSE
          [] OTHER -> TemplateTest(checkPattern, checkName, ProcessorFragments,
                                   ~caseSensitive)

(***************************************************************************)
(* Inputs of the decode ladder                                             *)
(***************************************************************************)
\* bytes kept after / cut from the 26-byte header
MaxPad == 1
MaxCut == 1

U16(n) == <<n \div 256, n % 256>>

SigChoices == {Signature, <<56, 66, 80, 88>>}
VersionChoices == {1, 2}
\* 0, 100, 30000, 40000 and 2^31 + 100 as four big-endian bytes
DimChoices == {<<0, 0, 0, 0>>, <<0, 0, 0, 100>>, <<0, 0, 117, 48>>,
               <<0, 0, 156, 64>>, <<128, 0, 0, 100>>}
DepthChoices == {0, 3, 8, 16}
ModeChoices == {3, 5}

\* signature, version, 6 reserved bytes, channels, height, width, depth, mode
MkHeader(sig, ver, h, w, d, m) ==
    sig \o U16(ver) \o <<0, 0, 0, 0, 0, 0>> \o U16(3) \o h \o w \o U16(d) \o U16(m)

Padding == [k \in 1..MaxPad |-> 0]

Buffers ==
    { SubSeq(MkHeader(sig, ver, h, w, d, m) \o Padding, 1, n) :
        sig \in SigChoices, ver \in VersionChoices, h \in DimChoices,
        w \in DimChoices, d \in DepthChoices, m \in ModeChoices,
        n \in (HeaderSize - MaxCut)..(HeaderSize + MaxPad) }

\* layer.text of a text layer that carries no font information
BareText == [style |-> Null, runArray |-> <<>>, styles |-> <<>>]

Leaf(name) ==
    [name |-> name, hasText |-> FALSE, text |-> BareText, hasAdjustment |-> FALSE,
     hasPlacedLayer |-> FALSE, hasVectorMask |-> FALSE,
     hasVectorStroke |-> FALSE, hidden |-> FALSE,
     hasChildren |-> FALSE, children |-> <<>>]

Group(name, kids) == [Leaf(name) EXCEPT !.hasChildren = TRUE, !.children = kids]

SampleTree ==
    << [Leaf(<<"T", "i", "t", "l", "e">>) EXCEPT !.hasText = TRUE],
       Group(<<"A", "r", "t">>,
             << Leaf(<<"S", "k", "y">>),
                [Leaf(<<>>) EXCEPT !.hasVectorMask = TRUE, !.hidden = TRUE] >>),
       Leaf(Background) >>

\* what readPsd may hand back: a document with its layer tree, and one
\* decoded without layers
DocLayered ==
    [width |-> 100, height |-> 50, colorMode |-> 3, bitsPerChannel |-> 8,
     channels |-> 3, hasResolutionInfo |-> TRUE, horizontalResolution |-> 29950,
     hasChildren |-> TRUE, children |-> SampleTree]

DocBare ==
    [DocLayered EXCEPT !.hasChildren = FALSE, !.children = <<>>,
                       !.hasResolutionInfo = FALSE]

Raises(k) ==
    [raises |-> TRUE, message |-> "decode error " \o ToString(k), psd |-> Null]
Decodes(doc) == [raises |-> FALSE, message |-> "", psd |-> doc]

Outcomes ==
    { <<a, b, c>> : a \in {Raises(1), Decodes(DocLayered), Decodes(DocBare)},
                    b \in {Raises(2), Decodes(DocLayered), Decodes(DocBare)},
                    c \in {Raises(3), Decodes(DocLayered), Decodes(DocBare)} }

DocName == <<"a", ".", "p", "s", "d">>

(***************************************************************************)
(* analyzePSDData, step by step                                            *)
(***************************************************************************)
IdleParse ==
    /\ data = <<>> /\ outcomes = <<>> /\ pc = "idle" /\ basicInfo = Null
    /\ attempt = 0 /\ psd = Null /\ parseError = <<>> /\ invoked = <<>>
    /\ ret = Null
IdleGrade == criteria = Null /\ graded = Null /\ grading = Null
IdleBatch ==
    /\ handler = "" /\ batch = <<>> /\ fileIdx = 0 /\ results = <<>>
    /\ response = Null /\ zipRun = Null
IdleTpl ==
    tplPattern = <<>> /\ tplName = <<>> /\ tplCase = FALSE /\ tplResult = Null
IdleCall == callee = "" /\ argument = Null /\ returned = Null

InitParse ==
    /\ data \in Buffers
    /\ outcomes \in Outcomes
    /\ pc = "start"
    /\ basicInfo = Null /\ attempt = 0 /\ psd = Null /\ parseError = <<>>
    /\ invoked = <<>> /\ ret = Null
    /\ IdleGrade /\ IdleBatch /\ IdleTpl /\ IdleCall

\* lines 149-154
ReadHeader ==
    /\ pc = "start"
    /\ basicInfo' = HeaderOrNull(data)
    /\ pc' = "ladder"
    /\ UNCHANGED <<data, outcomes, attempt, psd, parseError, invoked, ret>>
    /\ UNCHANGED <<gradeVars, batchVars, tplVars, callVars>>

\* lines 191-211, one iteration
Attempt ==
    /\ pc = "ladder"
    /\ LET st == AttemptStep(attempt, outcomes[attempt + 1], parseError,
                             basicInfo, DocName, Len(data))
       IN  /\ psd' = st.psd
           /\ parseError' = st.parseError
           /\ ret' = st.ret
           /\ pc' = st.goto
           /\ attempt' = IF st.goto = "ladder" THEN attempt + 1 ELSE attempt
    /\ invoked' = Append(invoked, attempt + 1)
    /\ UNCHANGED <<data, outcomes, basicInfo>>
    /\ UNCHANGED <<gradeVars, batchVars, tplVars, callVars>>

\* lines 213-303
Extract ==
    /\ pc = "extract"
    /\ ret' = Returned(BuildAnalysis(psd, parseError, DocName, Len(data)))
    /\ pc' = "done"
    /\ UNCHANGED <<data, outcomes, basicInfo, attempt, psd, parseError, invoked>>
    /\ UNCHANGED <<gradeVars, batchVars, tplVars, callVars>>

NextParse == ReadHeader \/ Attempt \/ Extract

SpecParse == InitParse /\ [][NextParse]_vars

\* the step-by-step run and the function agree
ParseAgrees == pc = "done" => ret = analyzePSDData(data, outcomes, DocName)

(***************************************************************************)
(* What a header declares, read off the bytes as the format defines them   *)
(***************************************************************************)
DeclaredInRange(buf, off) ==
    /\ Byte(buf, off) = 0 /\ Byte(buf, off + 1) = 0
    /\ Byte(buf, off + 2) * 256 + Byte(buf, off + 3) \in 1..30000
DeclaredDepth(buf) == Byte(buf, 22) * 256 + Byte(buf, 23)
DepthAllowed(buf) == DeclaredDepth(buf) \in {1, 8, 16, 32}
ValidHeader(buf) ==
    /\ Len(buf) >= 26
    /\ SubSeq(buf, 1, 4) = <<56, 66, 80, 83>>
    /\ DeclaredInRange(buf, 14) /\ DeclaredInRange(buf, 18)
    /\ DepthAllowed(buf)

AllRaise == \A k \in 1..3 : outcomes[k].raises

IsLimitedBackground(a) ==
    /\ "isLimitedParse" \in DOMAIN a /\ a.isLimitedParse = TRUE
    /\ Len(a.layers) = 1
    /\ a.layers[1].name = Background /\ a.layers[1].type = "raster"
    /\ a.layerCount = 1

(***************************************************************************)
(* C1: analyzePSDData raises only when the header reader failed on the     *)
(* buffer: a buffer with a valid 26-byte header always gets an analysis,   *)
(* whatever the three strategies do, and when every strategy raises and    *)
(* the header reader failed too the caller gets the error.                 *)
(***************************************************************************)
C1_RaisesOnlyWithoutHeader ==
    pc = "done" =>
        /\ (~ret.ok => basicInfo = Null /\ ~extractBasicPSDInfo(data).ok)
        /\ (ValidHeader(data) => ret.ok)
        /\ (AllRaise /\ basicInfo = Null =>
                /\ ~ret.ok
                /\ ret.error = "Unable to analyze PSD file: decode error 3")

C1_Witness ==
    /\ pc = "done" /\ ValidHeader(data) /\ AllRaise /\ ret.ok

(***************************************************************************)
(* C4: when all three strategies raise and the header reader succeeded,    *)
(* the result is returned, is tagged isLimitedParse, has exactly one       *)
(* raster layer named Background, and takes width, height, colorMode and   *)
(* bitDepth from the BasicInfo.                                            *)
(***************************************************************************)
C4_FallbackFromHeader ==
    pc = "done" /\ AllRaise /\ basicInfo # Null =>
        /\ ret.ok
        /\ IsLimitedBackground(ret.value)
        /\ ret.value.width = basicInfo.width
        /\ ret.value.height = basicInfo.height
        /\ ret.value.colorMode = basicInfo.colorMode
        /\ ret.value.bitDepth = basicInfo.bitDepth

C4_Witness ==
    /\ pc = "done" /\ AllRaise /\ basicInfo # Null
    /\ ret.ok /\ ret.value.width = 100 /\ ret.value.height = 30000

(***************************************************************************)
(* C5 as stated: when the first two strategies raise and the third         *)
(* succeeds, the result is tagged isLimitedParse and has exactly one       *)
(* synthesized Background layer.                                           *)
(***************************************************************************)
ThirdRungWins ==
    outcomes[1].raises /\ outcomes[2].raises /\ ~outcomes[3].raises

C5_Original ==
    pc = "done" /\ ThirdRungWins => ret.ok /\ IsLimitedBackground(ret.value)

RECURSIVE CountNodes(_)
CountNodes(ls) ==
    IF ls = <<>> THEN 0
    ELSE 1 + (IF Head(ls).hasChildren THEN CountNodes(Head(ls).children) ELSE 0)
           + CountNodes(Tail(ls))

(***************************************************************************)
(* C5 amended: when the first two strategies raise and the third succeeds, *)
(* the result is built from the document the third strategy decoded: it    *)
(* carries no isLimitedParse tag, its note is "Used fallback parsing       *)
(* method 3", and it has one layer per node of the decoded tree (none when *)
(* no layers were decoded).  The isLimitedParse tag with the single        *)
(* Background layer appears only when all three strategies raised.         *)
(***************************************************************************)
C5_ThirdRungIsFullAnalysis ==
    /\ pc = "done" /\ ThirdRungWins =>
        /\ ret.ok
        /\ "isLimitedParse" \notin DOMAIN ret.value
        /\ ret.value.parseNote = <<"Used fallback parsing method 3">>
        /\ ret.value.layerCount = Len(ret.value.layers)
        /\ ret.value.layerCount =
              IF outcomes[3].psd.hasChildren
              THEN CountNodes(outcomes[3].psd.children) ELSE 0
    /\ pc = "done" /\ ret.ok /\ "isLimitedParse" \in DOMAIN ret.value =>
        AllRaise /\ IsLimitedBackground(ret.value)

C5_Witness ==
    /\ pc = "done" /\ ThirdRungWins /\ ValidHeader(data)
    /\ ret.ok /\ ret.value.layerCount = 0

(***************************************************************************)
(* C6: for every buffer of at least 26 bytes whose first four bytes are    *)
(* not '8BPS', the header reader fails with the invalid-signature error    *)
(* and returns no BasicInfo.                                               *)
(***************************************************************************)
C6_BadSignatureFails ==
    pc # "start" /\ Len(data) >= 26 /\ SubSeq(data, 1, 4) # <<56, 66, 80, 83>> =>
        /\ basicInfo = Null
        /\ extractBasicPSDInfo(data) = Thrown("Invalid PSD signature")

(***************************************************************************)
(* C7: for every buffer of at least 26 bytes with the right signature, a   *)
(* declared width or height outside 1..30000 or a bit depth outside        *)
(* {1, 8, 16, 32} makes the header reader fail; every BasicInfo it returns *)
(* has width and height in 1..30000 and bitDepth in {1, 8, 16, 32}.        *)
(***************************************************************************)
C7_InvalidHeaderFails ==
    pc # "start" /\ Len(data) >= 26 /\ SubSeq(data, 1, 4) = <<56, 66, 80, 83>> =>
        /\ (~ValidHeader(data) => basicInfo = Null)
        /\ (basicInfo # Null =>
                /\ basicInfo.width \in 1..30000
                /\ basicInfo.height \in 1..30000
                /\ basicInfo.bitDepth \in {1, 8, 16, 32})

(***************************************************************************)
(* The template matchers applied to one candidate                          *)
(***************************************************************************)
\* characters a candidate may carry before and after its templated part
MaxExtra == 1

DES222_Smith_A01 ==
    <<"D", "E", "S", "2", "2", "2", "_", "S", "m", "i", "t", "h", "_", "A", "0", "1">>
DES222Smith_A01 ==
    <<"D", "E", "S", "2", "2", "2", "S", "m", "i", "t", "h", "_", "A", "0", "1">>

\* DES222_Smith-Jones_A01 and DES222_Smith_A01b
Hyphenated ==
    <<"D", "E", "S", "2", "2", "2", "_", "S", "m", "i", "t", "h", "-",
      "J", "o", "n", "e", "s", "_", "A", "0", "1">>
TrailingLetter == DES222_Smith_A01 \o <<"b">>

ExtraChars == {"_", ".", "x"}
Extras == UNION {[1..n -> ExtraChars] : n \in 0..MaxExtra}
Extensions == {DotPsd, <<".", "P", "S", "D">>}

TemplateNames ==
    { pre \o base \o suf \o ext :
        pre \in Extras, suf \in Extras, ext \in Extensions,
        base \in {DES222_Smith_A01, DES222Smith_A01} }
    \cup { base \o ext : base \in {Hyphenated, TrailingLetter},
                           ext \in Extensions }

TemplatePatterns ==
    { ClassNameAssignment,
      toLowerCase(ClassNameAssignment),
      Braced("LASTNAME") \o <<"_">> \o Braced("CLASS") \o <<"_">> \o Braced("ASSIGNMENT"),
      Braced("CLASS") \o <<".">> \o Braced("LASTNAME") }

InitTemplate ==
    /\ tplPattern \in TemplatePatterns
    /\ tplName \in TemplateNames
    /\ tplCase \in BOOLEAN
    /\ tplResult = Null
    /\ IdleParse /\ IdleGrade /\ IdleBatch /\ IdleCall

\* the same candidate through the grading matcher, the preview and the server
ValidateTemplate ==
    /\ tplResult = Null
    /\ tplResult' =
          [processor |-> checkFilename(tplName, tplPattern, "custom", tplCase),
           preview |-> PreviewValidateFilename(tplName, tplPattern, "custom", tplCase),
           server |-> validateFilenamePattern(tplName, tplPattern, "custom", tplCase)]
    /\ UNCHANGED <<tplPattern, tplName, tplCase>>
    /\ UNCHANGED <<parseVars, gradeVars, batchVars, callVars>>

NextTemplate == ValidateTemplate

SpecTemplate == InitTemplate /\ [][NextTemplate]_vars

Count(str, c) == Cardinality({k \in 1..Len(str) : str[k] = c})

IsClassNameAssignment(pattern) == toLowerCase(pattern) = toLowerCase(ClassNameAssignment)

AllAccept == tplResult.processor /\ tplResult.preview /\ tplResult.server
NoneAccepts == ~tplResult.processor /\ ~tplResult.preview /\ ~tplResult.server

\* the candidate is the named example with something put before or after it
HasExtra(name) ==
    \E pre \in Extras, suf \in Extras :
        /\ pre \o suf # <<>>
        /\ name = pre \o DES222_Smith_A01 \o suf

\* ... with something no placeholder admits among what was put there
HasForeignExtra(name) ==
    \E pre \in Extras, suf \in Extras :
        /\ \E k \in 1..Len(pre \o suf) : (pre \o suf)[k] \notin Letters \cup Digits
        /\ name = pre \o DES222_Smith_A01 \o suf

(***************************************************************************)
(* C10 as stated: {CLASS}_{LASTNAME}_{ASSIGNMENT} matches DES222_Smith_A01 *)
(* when case is ignored, does not match DES222Smith_A01, and matches no    *)
(* candidate with extra characters before or after the templated part.     *)
(***************************************************************************)
C10_Original ==
    tplResult # Null /\ IsClassNameAssignment(tplPattern) =>
        LET name == StripPsd(tplName)
        IN  /\ ~tplCase /\ name = DES222_Smith_A01 => AllAccept
            /\ name = DES222Smith_A01 => NoneAccepts
            /\ HasExtra(name) => NoneAccepts

(***************************************************************************)
(* C10 amended: in template mode the compiled pattern must match the whole *)
(* extension-stripped candidate, every literal separator included:         *)
(* {CLASS}_{LASTNAME}_{ASSIGNMENT} matches DES222_Smith_A01 when case is   *)
(* ignored, does not match DES222Smith_A01, and does not match the example *)
(* with characters added before or after it when one of them is a          *)
(* character no placeholder admits (a separator, a dot).  Added letters    *)
(* that the first placeholder can absorb still match (xDES222_Smith_A01).  *)
(* Whenever a matcher accepts a candidate, the candidate has exactly the   *)
(* separators of the pattern.                                              *)
(***************************************************************************)
C10_TemplateMatchesWholeName ==
    tplResult # Null =>
        LET name == StripPsd(tplName)
        IN  /\ IsClassNameAssignment(tplPattern) /\ ~tplCase
                  /\ name = DES222_Smith_A01
               => AllAccept
            /\ IsClassNameAssignment(tplPattern) /\ name = DES222Smith_A01
               => NoneAccepts
            /\ IsClassNameAssignment(tplPattern) /\ HasForeignExtra(name)
               => NoneAccepts
            /\ IsClassNameAssignment(tplPattern)
                  /\ name = <<"x">> \o DES222_Smith_A01
               => AllAccept
            /\ tplResult.processor \/ tplResult.preview \/ tplResult.server
               => /\ Count(name, "_") = Count(tplPattern, "_")
                  /\ Count(name, ".") = Count(tplPattern, ".")

C10_Witness ==
    /\ tplResult # Null /\ ~tplCase
    /\ tplPattern = ClassNameAssignment
    /\ tplName = DES222_Smith_A01 \o <<"_">> \o DotPsd
    /\ NoneAccepts

(***************************************************************************)
(* Double-precision arithmetic of (score / maxScore) * 100                 *)
(*                                                                         *)
(* A positive double is [bits, point]: 53 significant bits, the most       *)
(* significant first and set, of which `point` stand before the binary     *)
(* point (point <= 0: that many zeros follow the binary point).            *)
(***************************************************************************)
Significand == 53

Zeros(n) == [k \in 1..n |-> 0]

RECURSIVE AddBits(_, _, _)
\* a + b + carry for two bit strings of one length, one bit longer than they
AddBits(a, b, carry) ==
    IF Len(a) = 0 THEN <<carry>>
    ELSE IF Len(a) = 1
    THEN LET t == a[1] + b[1] + carry IN <<t \div 2, t % 2>>
    ELSE LET h == Len(a) \div 2
             low == AddBits(SubSeq(a, h + 1, Len(a)), SubSeq(b, h + 1, Len(b)), carry)
         IN  IF low[1] = 1
             THEN AddBits(SubSeq(a, 1, h), SubSeq(b, 1, h), 1) \o Tail(low)
             ELSE AddBits(SubSeq(a, 1, h), SubSeq(b, 1, h), 0) \o Tail(low)

RECURSIVE StripLeadingZeros(_)
StripLeadingZeros(bits) ==
    IF bits # <<>> /\ Head(bits) = 0 THEN StripLeadingZeros(Tail(bits)) ELSE bits

RECURSIVE BitsValue(_)
BitsValue(bits) ==
    IF bits = <<>> THEN 0
    ELSE 2 * BitsValue(SubSeq(bits, 1, Len(bits) - 1)) + bits[Len(bits)]

\* round to nearest, ties to even, to 53 significant bits
RoundToNearestEven(bits, inexact) ==
    LET kept == SubSeq(bits, 1, Significand)
        guard == bits[Significand + 1]
        sticky == inexact \/ \E k \in (Significand + 2)..Len(bits) : bits[k] = 1
        up == guard = 1 /\ (sticky \/ kept[Significand] = 1)
        sum == IF up THEN AddBits(kept, Zeros(Significand), 1) ELSE <<0>> \o kept
    IN  IF sum[1] = 1
        THEN [bits |-> SubSeq(sum, 1, Significand), carry |-> 1]
        ELSE [bits |-> Tail(sum), carry |-> 0]

RECURSIVE LeadingZeros(_, _)
\* zeros between the binary point and the first set bit of r / m, 0 < r < m
LeadingZeros(r, m) == IF 2 * r >= m THEN 0 ELSE 1 + LeadingZeros(2 * r, m)

RECURSIVE PowerOfTwoMod(_, _)
\* 2^k modulo m
PowerOfTwoMod(k, m) ==
    IF k = 0 THEN 1 % m
    ELSE LET h == PowerOfTwoMod(k \div 2, m)
         IN  (((h * h) % m) * (IF k % 2 = 1 THEN 2 ELSE 1)) % m

\* the first n bits of r / m after the binary point, and what is left over:
\* long division leaves (r * 2^k) modulo m after k bits
LongDivision(r, m, n) ==
    LET Left(k) == (r * PowerOfTwoMod(k, m)) % m
    IN  [bits |-> [k \in 1..n |-> IF 2 * Left(k - 1) >= m THEN 1 ELSE 0],
         rem |-> Left(n)]

RECURSIVE Shifted(_, _)
Shifted(r, z) == IF z = 0 THEN r ELSE Shifted(2 * r, z - 1)

\* score / maxScore, 0 < score < maxScore
Quotient(score, maxScore) ==
    LET z == LeadingZeros(score, maxScore)
        q == LongDivision(Shifted(score, z), maxScore, Significand + 1)
        r == RoundToNearestEven(q.bits, q.rem # 0)
    IN  [bits |-> r.bits, point |-> r.carry - z]

\* x * 100, 100 = 64 + 32 + 4
TimesHundred(x) ==
    LET x64 == x.bits \o Zeros(6)
        x32 == Zeros(1) \o x.bits \o Zeros(5)
        x4  == Zeros(4) \o x.bits \o Zeros(2)
        product == StripLeadingZeros(
                       AddBits(AddBits(x64, x32, 0), Zeros(1) \o x4, 0))
        r == RoundToNearestEven(product, FALSE)
    IN  [bits |-> r.bits,
         point |-> x.point + (Len(product) - Significand) + r.carry]

\* Math.round of a positive double: the nearest integer, halves upwards
MathRound(x) ==
    IF x.point < 0 THEN 0
    ELSE BitsValue(SubSeq(x.bits, 1, x.point)) + x.bits[x.point + 1]

\* Math.round(100 * score / maxScore) as the real numbers give it
ExactPercentage(score, maxScore) == (200 * score + maxScore) \div (2 * maxScore)

\* Math.round((score / maxScore) * 100), 0 <= score <= maxScore, maxScore > 0
RoundedPercentage(score, maxScore) ==
    IF score = 0 THEN 0
    ELSE IF score = maxScore THEN 100
    ELSE MathRound(TimesHundred(Quotient(score, maxScore)))

\* ScoreUtils.calculatePercentage
calculatePercentage(score, maxScore) ==
    IF maxScore = 0 THEN 0 ELSE RoundedPercentage(score, maxScore)

(***************************************************************************)
(* gradeFile                                                               *)
(*                                                                         *)
(* A numeric option of the criteria is <<>> when it is missing or empty    *)
(* and <<n>> otherwise; text options are strings, '' when empty.           *)
(***************************************************************************)
\* parseInt(v) || fallback
parseIntOr(v, fallback) == IF v = <<>> \/ v[1] = 0 THEN fallback ELSE v[1]

\* if (v) for a numeric option
Truthy(v) == v # <<>> /\ v[1] # 0

DefaultPointsPerCriterion == 20
DefaultFilenamePoints == 10

Whitespace == {" ", "\t", "\n"}

\* String.prototype.trim
RECURSIVE trim(_)
trim(str) ==
    IF str # <<>> /\ Head(str) \in Whitespace THEN trim(Tail(str))
    ELSE IF str # <<>> /\ str[Len(str)] \in Whitespace
    THEN trim(SubSeq(str, 1, Len(str) - 1))
    ELSE str

\* str.split(sep) for a one-character separator
RECURSIVE split(_, _)
split(str, sep) ==
    IF \E k \in 1..Len(str) : str[k] = sep
    THEN LET first == CHOOSE k \in 1..Len(str) :
                          str[k] = sep /\ \A j \in 1..(k - 1) : str[j] # sep
         IN  <<SubSeq(str, 1, first - 1)>>
                 \o split(SubSeq(str, first + 1, Len(str)), sep)
    ELSE <<str>>

\* Array.prototype.join
RECURSIVE join(_, _)
join(parts, sep) ==
    IF parts = <<>> THEN <<>>
    ELSE IF Len(parts) = 1 THEN parts[1]
    ELSE parts[1] \o sep \o join(Tail(parts), sep)

\* the pattern types whose name holds an underscore
PredefinedTypes ==
    {"class_name_assignment", "name_class_assignment", "assignment_name_class"}

\* pattern.replace(/\{([^}]+)\}/g, '<$1>')
RECURSIVE AngleBrackets(_)
AngleBrackets(str) ==
    IF str = <<>> THEN <<>>
    ELSE IF Head(str) = "{" /\ \E k \in 2..Len(str) : str[k] = "}"
    THEN LET close == CHOOSE k \in 2..Len(str) :
                          str[k] = "}" /\ \A j \in 2..(k - 1) : str[j] # "}"
         IN  IF close >= 3
             THEN <<"<">> \o SubSeq(str, 2, close - 1) \o <<">">>
                      \o AngleBrackets(SubSeq(str, close + 1, Len(str)))
             ELSE <<"{">> \o AngleBrackets(Tail(str))
    ELSE <<Head(str)>> \o AngleBrackets(Tail(str))

NoneFound == <<"N", "o", "n", "e", " ", "f", "o", "u", "n", "d">>

\* one rule evaluated: what it adds to score, maxScore and checks
Evaluated(st, check, passed, worth) ==
    [score |-> IF passed THEN st.score + worth ELSE st.score,
     maxScore |-> st.maxScore + worth,
     checks |-> Append(st.checks, check)]

\* lines 613-639
FilenameRule(st, analysis, crit) ==
    IF crit.enableFilenameSection
    THEN LET filenamePoints == parseIntOr(crit.filenamePoints, DefaultFilenamePoints)
             passed == checkFilename(analysis.originalFilename,
                                     crit.filenamePattern,
                                     crit.filenamePatternType,
                                     crit.filenameCaseSensitive = "yes")
             expectedDisplay ==
                 IF crit.filenamePatternType = "custom"
                        \/ crit.filenamePatternType \in PredefinedTypes
                 THEN AngleBrackets(crit.filenamePattern)
                 ELSE crit.filenamePattern
         IN  Evaluated(st,
                       [criterion |-> "Filename",
                        expected |-> expectedDisplay,
                        actual |-> StripPsd(analysis.originalFilename),
                        passed |-> passed,
                        points |-> IF passed THEN filenamePoints ELSE 0],
                       passed, filenamePoints)
    ELSE st

\* a width check and its points whether or not a width is required
WidthRuleScoredAsZero(st, analysis, crit, pointsPerCriterion) ==
    LET passed == Truthy(crit.reqWidth) /\ analysis.width = crit.reqWidth[1]
    IN  Evaluated(st,
                  [criterion |-> "Width", expected |-> "px",
                   actual |-> ToString(analysis.width) \o "px",
                   passed |-> passed,
                   points |-> IF passed THEN pointsPerCriterion ELSE 0],
                  passed, pointsPerCriterion)

\* lines 641-653
WidthRule(st, analysis, crit, pointsPerCriterion) ==
    IF Truthy(crit.reqWidth)
    THEN LET passed == analysis.width = crit.reqWidth[1]
         IN  Evaluated(st,
                       [criterion |-> "Width",
                        expected |-> ToString(crit.reqWidth[1]) \o "px",
                        actual |-> ToString(analysis.width) \o "px",
                        passed |-> passed,
                        points |-> IF passed THEN pointsPerCriterion ELSE 0],
                       passed, pointsPerCriterion)
    ELSE st

\* lines 655-667
HeightRule(st, analysis, crit, pointsPerCriterion) ==
    IF Truthy(crit.reqHeight)
    THEN LET passed == analysis.height = crit.reqHeight[1]
         IN  Evaluated(st,
                       [criterion |-> "Height",
                        expected |-> ToString(crit.reqHeight[1]) \o "px",
                        actual |-> ToString(analysis.height) \o "px",
                        passed |-> passed,
                        points |-> IF passed THEN pointsPerCriterion ELSE 0],
                       passed, pointsPerCriterion)
    ELSE st

\* lines 669-681
ColorModeRule(st, analysis, crit, pointsPerCriterion) ==
    IF crit.reqColorMode # ""
    THEN LET passed == analysis.colorMode = crit.reqColorMode
         IN  Evaluated(st,
                       [criterion |-> "Color Mode",
                        expected |-> crit.reqColorMode,
                        actual |-> analysis.colorMode,
                        passed |-> passed,
                        points |-> IF passed THEN pointsPerCriterion ELSE 0],
                       passed, pointsPerCriterion)
    ELSE st

\* lines 683-695
MinLayersRule(st, analysis, crit, pointsPerCriterion) ==
    IF Truthy(crit.minLayers)
    THEN LET passed == analysis.layerCount >= crit.minLayers[1]
         IN  Evaluated(st,
                       [criterion |-> "Minimum Layers",
                        expected |-> ToString(crit.minLayers[1]) \o "+ layers",
                        actual |-> ToString(analysis.layerCount) \o " layers",
                        passed |-> passed,
                        points |-> IF passed THEN pointsPerCriterion ELSE 0],
                       passed, pointsPerCriterion)
    ELSE st

\* lines 697-717
RequiredLayersRule(st, analysis, crit, pointsPerCriterion) ==
    IF Len(crit.reqLayers) > 0
    THEN LET parts == split(crit.reqLayers, ",")
             trimmed == [k \in 1..Len(parts) |-> trim(parts[k])]
             NonEmpty(str) == str # <<>>
             requiredLayers == SelectSeq(trimmed, NonEmpty)
             Found(reqLayer) ==
                 \E k \in 1..Len(analysis.layerNames) :
                     includes(toLowerCase(analysis.layerNames[k]),
                              toLowerCase(reqLayer))
             foundLayers == SelectSeq(requiredLayers, Found)
             passed == Len(foundLayers) = Len(requiredLayers)
         IN  Evaluated(st,
                       [criterion |-> "Required Layers",
                        expected |-> join(requiredLayers, <<",", " ">>),
                        actual |-> IF Len(foundLayers) > 0
                                   THEN join(foundLayers, <<",", " ">>)
                                   ELSE NoneFound,
                        passed |-> passed,
                        points |-> IF passed THEN pointsPerCriterion ELSE 0,
                        requiredLayers |-> requiredLayers,
                        foundLayers |-> foundLayers],
                       passed, pointsPerCriterion)
    ELSE st

\* lines 607-728
gradeFile(analysis, crit) ==
    LET pointsPerCriterion ==
            parseIntOr(crit.pointsPerCriterion, DefaultPointsPerCriterion)
        s0 == [score |-> 0, maxScore |-> 0, checks |-> <<>>]
        s1 == FilenameRule(s0, analysis, crit)
        s2 == WidthRule(s1, analysis, crit, pointsPerCriterion)
        s3 == HeightRule(s2, analysis, crit, pointsPerCriterion)
        s4 == ColorModeRule(s3, analysis, crit, pointsPerCriterion)
        s5 == MinLayersRule(s4, analysis, crit, pointsPerCriterion)
        s6 == RequiredLayersRule(s5, analysis, crit, pointsPerCriterion)
    IN  [filename |-> analysis.filename,
         originalFilename |-> analysis.originalFilename,
         score |-> s6.score,
         maxScore |-> s6.maxScore,
         percentage |-> IF s6.maxScore > 0
                        THEN RoundedPercentage(s6.score, s6.maxScore)
                        ELSE 0,
         checks |-> s6.checks,
         analysis |-> analysis]

\* FileProcessor.getMaxScore
getMaxScore(crit) ==
    LET pointsPerCriterion ==
            parseIntOr(crit.pointsPerCriterion, DefaultPointsPerCriterion)
    IN  (IF crit.enableFilenameSection
         THEN parseIntOr(crit.filenamePoints, DefaultFilenamePoints) ELSE 0)
        + (IF Truthy(crit.reqWidth) THEN pointsPerCriterion ELSE 0)
        + (IF Truthy(crit.reqHeight) THEN pointsPerCriterion ELSE 0)
        + (IF crit.reqColorMode # "" THEN pointsPerCriterion ELSE 0)
        + (IF Truthy(crit.minLayers) THEN pointsPerCriterion ELSE 0)
        + (IF Len(crit.reqLayers) > 0 /\ trim(crit.reqLayers) # <<>>
           THEN pointsPerCriterion ELSE 0)

(***************************************************************************)
(* Grading one analysis under one set of criteria                          *)
(***************************************************************************)
Draft == <<"d", "r", "a", "f", "t">>

GradedNames == {DES222_Smith_A01 \o DotPsd, Draft \o DotPsd}

\* decoded documents: layered 100 x 50 RGB, layered 800 x 600 CMYK, no layers
GradedDocs ==
    {DocLayered,
     [DocLayered EXCEPT !.width = 800, !.height = 600, !.colorMode = 4],
     DocBare}

Analyses ==
    {BuildAnalysis(doc, <<>>, name, 1000) : doc \in GradedDocs, name \in GradedNames}

TitleAndSky == <<"t", "i", "t", "l", "e", ",", " ", "S", "k", "y">>

CriteriaChoices ==
    [pointsPerCriterion : {<<>>, <<0>>, <<17>>},
     enableFilenameSection : BOOLEAN,
     filenamePoints : {<<>>, <<0>>, <<23>>},
     filenamePattern : {ClassNameAssignment},
     filenamePatternType : {"custom"},
     filenameCaseSensitive : {"no"},
     reqWidth : {<<>>, <<0>>, <<100>>},
     reqHeight : {<<>>, <<50>>},
     reqColorMode : {"", "RGB"},
     minLayers : {<<>>, <<2>>},
     reqLayers : {<<>>, TitleAndSky, <<" ">>, <<",">>}]

InitGrade ==
    /\ criteria \in CriteriaChoices
    /\ grading \in Analyses
    /\ graded = Null
    /\ IdleParse /\ IdleBatch /\ IdleTpl /\ IdleCall

Grade ==
    /\ graded = Null
    /\ graded' = gradeFile(grading, criteria)
    /\ UNCHANGED <<criteria, grading, parseVars, batchVars, tplVars, callVars>>

NextGrade == Grade

SpecGrade == InitGrade /\ [][NextGrade]_vars

\* the rule groups, by the criterion name their check carries
RuleNames ==
    {"Filename", "Width", "Height", "Color Mode", "Minimum Layers",
     "Required Layers"}

\* a rule that is disabled or whose target value is empty
Unconfigured(rule, crit) ==
    CASE rule = "Filename" -> ~crit.enableFilenameSection
      [] rule = "Width" -> crit.reqWidth = <<>>
      [] rule = "Height" -> crit.reqHeight = <<>>
      [] rule = "Color Mode" -> crit.reqColorMode = ""
      [] rule = "Minimum Layers" -> crit.minLayers = <<>>
      [] rule = "Required Layers" -> crit.reqLayers = <<>>

\* the points a rule is worth under the criteria
Worth(rule, crit) ==
    IF rule = "Filename"
    THEN parseIntOr(crit.filenamePoints, DefaultFilenamePoints)
    ELSE parseIntOr(crit.pointsPerCriterion, DefaultPointsPerCriterion)

RECURSIVE SumAwarded(_)
SumAwarded(checks) ==
    IF checks = <<>> THEN 0 ELSE Head(checks).points + SumAwarded(Tail(checks))

RECURSIVE SumPossible(_, _)
SumPossible(checks, crit) ==
    IF checks = <<>> THEN 0
    ELSE Worth(Head(checks).criterion, crit) + SumPossible(Tail(checks), crit)

HasCheck(result, rule) ==
    \E k \in 1..Len(result.checks) : result.checks[k].criterion = rule

OnlyWidthConfigured(crit) ==
    \A rule \in RuleNames : Unconfigured(rule, crit) <=> rule # "Width"

C9_ScoreSumsAndPercentage ==
    graded # Null =>
        /\ graded.score = SumAwarded(graded.checks)
        /\ graded.maxScore = SumPossible(graded.checks, criteria)
        /\ 0 <= graded.score /\ graded.score <= graded.maxScore
        /\ graded.percentage =
               IF graded.maxScore > 0
               THEN ExactPercentage(graded.score, graded.maxScore) ELSE 0
        /\ calculatePercentage(graded.score, graded.maxScore) = graded.percentage

(***************************************************************************)
(* Batches and archives                                                    *)
(*                                                                         *)
(* An uploaded file is [originalName, readable, buffer, outcomes, entries]: *)
(* readable tells whether reading the file from disk (a document) or       *)
(* opening it as an archive succeeds; an archive entry is [name, dir,      *)
(* readable, buffer, outcomes], readable telling whether its payload can   *)
(* be read.  An error message is the tuple of the parts it is built from.  *)
(***************************************************************************)
\* this.systemFiles (lines 8-14)
systemFiles ==
    <<<<".", "D", "S", "_", "S", "t", "o", "r", "e">>,
       <<"T", "h", "u", "m", "b", "s", ".", "d", "b">>,
       <<"d", "e", "s", "k", "t", "o", "p", ".", "i", "n", "i">>,
       <<".", "l", "o", "c", "a", "l", "i", "z", "e", "d">>,
       <<".", "D", "o", "c", "u", "m", "e", "n", "t", "R", "e", "v", "i", "s", "i", "o", "n", "s", "-", "V", "1", "0", "0">>,
       <<".", "f", "s", "e", "v", "e", "n", "t", "s", "d">>,
       <<".", "S", "p", "o", "t", "l", "i", "g", "h", "t", "-", "V", "1", "0", "0">>,
       <<".", "T", "e", "m", "p", "o", "r", "a", "r", "y", "I", "t", "e", "m", "s">>,
       <<".", "T", "r", "a", "s", "h", "e", "s">>,
       <<".", "V", "o", "l", "u", "m", "e", "I", "c", "o", "n", ".", "i", "c", "n", "s">>,
       <<".", "c", "o", "m", ".", "a", "p", "p", "l", "e", ".", "t", "i", "m", "e", "m", "a", "c", "h", "i", "n", "e", ".", "d", "o", "n", "o", "t", "p", "r", "e", "s", "e", "n", "t">>,
       <<".", "A", "p", "p", "l", "e", "D", "o", "u", "b", "l", "e">>,
       <<".", "L", "S", "O", "v", "e", "r", "r", "i", "d", "e">>>>

isSystemFileNever(filename) == FALSE

\* FileProcessor.isSystemFile
isSystemFile(filename) ==
    LET filenameLower == toLowerCase(filename)
    IN  \/ \E k \in 1..Len(systemFiles) : filenameLower = toLowerCase(systemFiles[k])
        \/ startsWith(filename, <<".", "_">>)
        \/ includes(filename, <<"_", "_", "M", "A", "C", "O", "S", "X">>)
        \/ includes(filename, <<"/", ".", "D", "S", "_", "S", "t", "o", "r", "e">>)
        \/ includes(filename, <<"\\", "T", "h", "u", "m", "b", "s", ".", "d", "b">>)
        \/ startsWith(filename, <<"~", "$">>)
        \/ endsWith(filenameLower, <<".", "t", "m", "p">>)
        \/ endsWith(filenameLower, <<".", "t", "e", "m", "p">>)

\* the record pushed by the catch blocks (lines 47-55 and 96-104)
ErrorRecord(name, message, crit) ==
    [filename |-> name,
     originalFilename |-> name,
     error |-> message,
     score |-> 0,
     maxScore |-> getMaxScore(crit),
     percentage |-> 0,
     analysis |-> Null]

\* FileProcessor.processPSDFile (lines 123-132)
processPSDFile(file, crit) ==
    IF ~file.readable
    THEN Thrown(<<"Failed to process PSD file ", file.originalName, ": ",
                  "ENOENT: no such file or directory">>)
    ELSE LET analysis == analyzePSDData(file.buffer, file.outcomes, file.originalName)
         IN  IF analysis.ok THEN Returned(gradeFile(analysis.value, crit))
             ELSE Thrown(<<"Failed to process PSD file ", file.originalName, ": ",
                           analysis.error>>)

\* FileProcessor.processZipFile, lines 77-106: what one entry adds to results
ZipEntryResults(entry, crit) ==
    IF isSystemFile(entry.name) THEN <<>>
    ELSE IF endsWith(toLowerCase(entry.name), DotPsd) /\ ~entry.dir
    THEN IF ~entry.readable
         THEN <<ErrorRecord(entry.name, <<"Corrupted zip : CRC32 mismatch">>, crit)>>
         ELSE LET analysis == analyzePSDData(entry.buffer, entry.outcomes, entry.name)
              IN  IF analysis.ok THEN <<gradeFile(analysis.value, crit)>>
                  ELSE <<ErrorRecord(entry.name, <<analysis.error>>, crit)>>
    ELSE <<>>

\* lines 77-88: the entry reaches analyzePSDData
ZipEntryParsed(entry) ==
    IF /\ ~isSystemFile(entry.name)
       /\ endsWith(toLowerCase(entry.name), DotPsd) /\ ~entry.dir
       /\ entry.readable
    THEN <<entry.name>> ELSE <<>>

\* path.basename
basename(name) == AfterLast(name, "/")

\* the server's processPSDFile: a failed document becomes a result carrying
\* score 0, the maxScore of the criteria and the error
ServerProcessPSDFile(file, crit) ==
    LET analysis == analyzePSDData(file.buffer, file.outcomes, file.originalname)
    IN  IF analysis.ok THEN gradeFile(analysis.value, crit)
        ELSE ErrorRecord(file.originalname, <<analysis.error>>, crit)

\* the server's processZipFile, lines 1009-1013
ServerPsdFiles(entries) ==
    LET Kept(entry) ==
            /\ endsWith(toLowerCase(entry.name), DotPsd)
            /\ ~includes(entry.name, <<"_", "_", "M", "A", "C", "O", "S", "X">>)
            /\ ~startsWith(entry.name, <<".">>)
    IN  SelectSeq(entries, Kept)

\* (score / maxScore) * 100 >= n for a whole number n, 0 <= score <= maxScore
PercentageAtLeast(score, maxScore, n) ==
    IF score = 0 THEN 0 >= n
    ELSE IF score = maxScore THEN 100 >= n
    ELSE LET x == TimesHundred(Quotient(score, maxScore))
         IN  x.point > 0 /\ BitsValue(SubSeq(x.bits, 1, x.point)) >= n

RECURSIVE SumScore(_)
SumScore(files) == IF files = <<>> THEN 0 ELSE Head(files).score + SumScore(Tail(files))

RECURSIVE SumMaxScore(_)
SumMaxScore(files) ==
    IF files = <<>> THEN 0 ELSE Head(files).maxScore + SumMaxScore(Tail(files))

PassMark == 70

\* lines 969-989
Summary(files) ==
    LET Valid(f) == f.maxScore > 0
        validFiles == SelectSeq(files, Valid)
        totalScore == SumScore(validFiles)
        totalMaxScore == SumMaxScore(validFiles)
        Passed(f) == Valid(f) /\ PercentageAtLeast(f.score, f.maxScore, PassMark)
        Failed(f) == Valid(f) /\ ~PercentageAtLeast(f.score, f.maxScore, PassMark)
    IN  [totalFiles |-> Len(files),
         averageScore |-> IF Len(validFiles) > 0 /\ totalMaxScore > 0
                          THEN RoundedPercentage(totalScore, totalMaxScore)
                          ELSE 0,
         passed |-> Len(SelectSeq(files, Passed)),
         failed |-> Len(SelectSeq(files, Failed))]

(***************************************************************************)
(* The uploads of one request                                              *)
(***************************************************************************)
MaxFiles == 2

GoodBuffer == MkHeader(Signature, 1, <<0, 0, 0, 50>>, <<0, 0, 0, 100>>, 8, 3)
ShortBuffer == <<56, 66, 80>>

AllDecode == <<Decodes(DocLayered), Decodes(DocLayered), Decodes(DocLayered)>>
NoneDecodes == <<Raises(1), Raises(2), Raises(3)>>

Upload(name, readable, buffer, outs, entries) ==
    [originalName |-> name, readable |-> readable, buffer |-> buffer,
     outcomes |-> outs, entries |-> entries]

Entry(name, dir, readable, buffer, outs) ==
    [name |-> name, dir |-> dir, readable |-> readable, buffer |-> buffer,
     outcomes |-> outs]

EntryA == <<"a", ".", "p", "s", "d">>
EntryB == <<"b", ".", "p", "s", "d">>
EntryC == <<"c", ".", "p", "s", "d">>
WorkZip == <<"w", "o", "r", "k", ".", "z", "i", "p">>

\* one name of each kind of OS artifact: a sentinel file in another letter
\* case, an AppleDouble file, a file of the metadata folder, a temporary file
ArtifactNames ==
    { <<".", "d", "s", "_", "s", "t", "o", "r", "e">>,
      <<".", "_", "b", ".", "p", "s", "d">>,
      <<"_", "_", "M", "A", "C", "O", "S", "X", "/", "b", ".", "p", "s", "d">>,
      <<"b", ".", "p", "s", "d", ".", "T", "M", "P">> }

\* archives: one good document; a corrupt document first; an unreadable
\* payload first; OS artifacts, a directory, a header-only document
Archives ==
    { <<Entry(EntryA, FALSE, TRUE, GoodBuffer, AllDecode)>>,
      <<Entry(EntryA, FALSE, TRUE, ShortBuffer, NoneDecodes),
        Entry(EntryB, FALSE, TRUE, GoodBuffer, AllDecode)>>,
      <<Entry(EntryA, FALSE, FALSE, GoodBuffer, AllDecode),
        Entry(EntryB, FALSE, TRUE, GoodBuffer, AllDecode)>>,
      <<Entry(<<"_", "_", "M", "A", "C", "O", "S", "X", "/", ".", "_", "a", ".", "p", "s", "d">>, FALSE, TRUE, ShortBuffer, NoneDecodes),
        Entry(<<"a", "r", "t", ".", "p", "s", "d", "/">>, TRUE, TRUE, <<>>, NoneDecodes),
        Entry(<<"n", "o", "t", "e", "s", ".", "t", "x", "t">>, FALSE, TRUE, <<>>, NoneDecodes),
        Entry(EntryC, FALSE, TRUE, GoodBuffer, NoneDecodes)>> }
    \cup { <<Entry(name, FALSE, TRUE, GoodBuffer, AllDecode),
             Entry(EntryA, FALSE, TRUE, GoodBuffer, AllDecode)>> :
                name \in ArtifactNames }

Uploads ==
    { Upload(DES222_Smith_A01 \o DotPsd, TRUE, GoodBuffer, AllDecode, <<>>),
      Upload(<<"b", "a", "d", ".", "p", "s", "d">>, TRUE, ShortBuffer, NoneDecodes, <<>>),
      Upload(<<"g", "o", "n", "e", ".", "p", "s", "d">>, FALSE, GoodBuffer, AllDecode, <<>>),
      Upload(<<"n", "o", "t", "e", "s", ".", "t", "x", "t">>, TRUE, <<>>, NoneDecodes, <<>>),
      Upload(<<"b", "r", "o", "k", "e", "n", ".", "z", "i", "p">>, FALSE, <<>>, NoneDecodes, <<>>) }
    \cup { Upload(WorkZip, TRUE, <<>>, NoneDecodes, entries) : entries \in Archives }

Batches == UNION {[1..n -> Uploads] : n \in 0..MaxFiles}

BatchCriteria ==
    [pointsPerCriterion |-> <<>>,
     enableFilenameSection |-> TRUE,
     filenamePoints |-> <<>>,
     filenamePattern |-> ClassNameAssignment,
     filenamePatternType |-> "custom",
     filenameCaseSensitive |-> "no",
     reqWidth |-> <<100>>,
     reqHeight |-> <<>>,
     reqColorMode |-> "RGB",
     minLayers |-> <<2>>,
     reqLayers |-> <<>>]

\* criteria that configure no rule at all
NoRules ==
    [BatchCriteria EXCEPT !.enableFilenameSection = FALSE, !.reqWidth = <<>>,
                          !.reqColorMode = "", !.minLayers = <<>>]

\* req.body.criteria that JSON.parse rejects
MalformedJSON == [malformed |-> TRUE]

IsZip(name) == endsWith(toLowerCase(name), DotZip)
IsPsd(name) == endsWith(toLowerCase(name), DotPsd)

InitBatch ==
    /\ batch \in Batches
    /\ \/ handler = "processFiles" /\ criteria = BatchCriteria
       \/ handler = "app.post"
             /\ criteria \in {BatchCriteria, NoRules, MalformedJSON}
    /\ fileIdx = 0 /\ results = <<>> /\ response = Null /\ zipRun = Null
    /\ grading = Null /\ graded = Null
    /\ IdleParse /\ IdleTpl /\ IdleCall

BatchFrame == UNCHANGED <<handler, batch, criteria, grading, graded, parseVars, tplVars, callVars>>

\* parsed: the names of the entries whose payload was handed to the parser
ZipRun(entries) ==
    [entries |-> entries, idx |-> 0, results |-> <<>>, parsed |-> <<>>,
     done |-> entries = <<>>]

\* FileProcessor.processFiles, one iteration of the loop (lines 29-57) up to
\* the point where an archive has been opened (lines 72-73)
ProcessFile ==
    /\ handler = "processFiles" /\ response = Null /\ zipRun = Null
    /\ fileIdx < Len(batch)
    /\ LET fileInfo == batch[fileIdx + 1]
           name == fileInfo.originalName
       IN  IF IsZip(name)
           THEN IF fileInfo.readable
                THEN /\ zipRun' = ZipRun(fileInfo.entries)
                     /\ UNCHANGED <<results, fileIdx>>
                ELSE /\ results' = Append(results,
                            ErrorRecord(name, <<"Failed to process ZIP file: ",
                                "Can't find end of central directory">>, criteria))
                     /\ fileIdx' = fileIdx + 1
                     /\ UNCHANGED zipRun
           ELSE IF IsPsd(name)
           THEN LET result == processPSDFile(fileInfo, criteria)
                IN  /\ results' = Append(results,
                            IF result.ok THEN result.value
                            ELSE ErrorRecord(name, result.error, criteria))
                    /\ fileIdx' = fileIdx + 1
                    /\ UNCHANGED zipRun
           ELSE /\ fileIdx' = fileIdx + 1
                /\ UNCHANGED <<results, zipRun>>
    /\ UNCHANGED response
    /\ BatchFrame

\* FileProcessor.processZipFile, one iteration of the loop (lines 76-107)
ProcessZipEntry ==
    /\ handler = "processFiles" /\ zipRun # Null /\ ~zipRun.done
    /\ LET entry == zipRun.entries[zipRun.idx + 1]
       IN  zipRun' = [zipRun EXCEPT
                        !.idx = @ + 1,
                        !.results = @ \o ZipEntryResults(entry, criteria),
                        !.parsed = @ \o ZipEntryParsed(entry),
                        !.done = zipRun.idx + 1 = Len(zipRun.entries)]
    /\ UNCHANGED <<results, fileIdx, response>>
    /\ BatchFrame

PushZipResultsInFront ==
    /\ handler = "processFiles" /\ zipRun # Null /\ zipRun.done
    /\ results' = zipRun.results \o results
    /\ fileIdx' = fileIdx + 1
    /\ zipRun' = Null
    /\ UNCHANGED response
    /\ BatchFrame

\* lines 113 and 37-38: the archive's results are returned and pushed
PushZipResults ==
    /\ handler = "processFiles" /\ zipRun # Null /\ zipRun.done
    /\ results' = results \o zipRun.results
    /\ fileIdx' = fileIdx + 1
    /\ zipRun' = Null
    /\ UNCHANGED response
    /\ BatchFrame

\* line 59
ProcessFilesReturn ==
    /\ handler = "processFiles" /\ response = Null /\ zipRun = Null
    /\ fileIdx = Len(batch)
    /\ response' = [files |-> results]
    /\ UNCHANGED <<results, fileIdx, zipRun>>
    /\ BatchFrame

\* app.post('/api/process'), one iteration of the loop (lines 954-967) up to
\* the point where an archive has been opened (lines 1008-1013)
ServerFile ==
    /\ handler = "app.post" /\ criteria # MalformedJSON
    /\ response = Null /\ zipRun = Null
    /\ fileIdx < Len(batch)
    /\ LET file == batch[fileIdx + 1]
           name == file.originalName
       IN  IF IsZip(name)
           THEN IF file.readable
                THEN /\ zipRun' = ZipRun(ServerPsdFiles(file.entries))
                     /\ UNCHANGED <<results, fileIdx>>
                ELSE /\ fileIdx' = fileIdx + 1
                     /\ UNCHANGED <<results, zipRun>>
           ELSE IF IsPsd(name)
           THEN /\ results' = Append(results,
                        ServerProcessPSDFile([buffer |-> file.buffer,
                                              outcomes |-> file.outcomes,
                                              originalname |-> name], criteria))
                /\ fileIdx' = fileIdx + 1
                /\ UNCHANGED zipRun
           ELSE /\ fileIdx' = fileIdx + 1
                /\ UNCHANGED <<results, zipRun>>
    /\ UNCHANGED response
    /\ BatchFrame

\* the server's processZipFile, one iteration of the loop (lines 1015-1022)
\* and the catch that ends it (lines 1023-1025)
ServerZipEntry ==
    /\ handler = "app.post" /\ zipRun # Null /\ ~zipRun.done
    /\ LET entry == zipRun.entries[zipRun.idx + 1]
       IN  IF entry.readable
           THEN zipRun' = [zipRun EXCEPT
                    !.idx = @ + 1,
                    !.results = Append(@,
                        ServerProcessPSDFile([buffer |-> entry.buffer,
                                              outcomes |-> entry.outcomes,
                                              originalname |-> basename(entry.name)],
                                             criteria)),
                    !.parsed = Append(@, entry.name),
                    !.done = zipRun.idx + 1 = Len(zipRun.entries)]
           ELSE zipRun' = [zipRun EXCEPT !.done = TRUE]
    /\ UNCHANGED <<results, fileIdx, response>>
    /\ BatchFrame

\* lines 1027 and 959-966
ServerPushZipResults ==
    /\ handler = "app.post" /\ zipRun # Null /\ zipRun.done
    /\ results' = results \o zipRun.results
    /\ fileIdx' = fileIdx + 1
    /\ zipRun' = Null
    /\ UNCHANGED response
    /\ BatchFrame

\* lines 969-992
ServerRespond ==
    /\ handler = "app.post" /\ criteria # MalformedJSON
    /\ response = Null /\ zipRun = Null
    /\ fileIdx = Len(batch)
    /\ response' = [status |-> 200, files |-> results, summary |-> Summary(results)]
    /\ UNCHANGED <<results, fileIdx, zipRun>>
    /\ BatchFrame

\* line 938 throwing, lines 994-1000
ServerError ==
    /\ handler = "app.post" /\ criteria = MalformedJSON
    /\ response = Null
    /\ response' = [status |-> 500, error |-> "Failed to process files",
                    message |-> "Unexpected token in JSON"]
    /\ UNCHANGED <<results, fileIdx, zipRun>>
    /\ BatchFrame

NextBatch ==
    \/ ProcessFile \/ ProcessZipEntry \/ PushZipResults \/ ProcessFilesReturn
    \/ ServerFile \/ ServerZipEntry \/ ServerPushZipResults \/ ServerRespond
    \/ ServerError

SpecBatch == InitBatch /\ [][NextBatch]_vars

\* a document whose analysis raises
AnalysisFails(buffer, outs, name) == ~analyzePSDData(buffer, outs, name).ok

\* an uploaded file whose processing fails: an archive that cannot be opened,
\* a document that cannot be read from disk or analysed (the server holds
\* the uploaded bytes in memory and reads nothing from disk)
UploadFails(file) ==
    IF IsZip(file.originalName) THEN ~file.readable
    ELSE IF IsPsd(file.originalName)
    THEN \/ handler = "processFiles" /\ ~file.readable
         \/ AnalysisFails(file.buffer, file.outcomes, file.originalName)
    ELSE FALSE

\* a result record with score 0, percentage 0 and a populated error field
IsErrorRecord(r) ==
    /\ "error" \in DOMAIN r
    /\ Len(r.error) > 0
    /\ r.score = 0 /\ r.percentage = 0

\* the normal GradingResult of a document
NormalResult(buffer, outs, name) ==
    gradeFile(analyzePSDData(buffer, outs, name).value, criteria)

IsNormalResult(r, buffer, outs, name) ==
    "error" \notin DOMAIN r /\ r = NormalResult(buffer, outs, name)

Occurrences(seq, Test(_)) == Cardinality({k \in 1..Len(seq) : Test(seq[k])})

(***************************************************************************)
(* C2: in a batch a failure while processing one uploaded file never       *)
(* aborts the processing of the others: in the batch response every        *)
(* failing file has exactly one result record, with score 0, percentage 0  *)
(* and a populated error field, every non-failing document has its normal  *)
(* GradingResult, and the response is a well-formed one even when every    *)
(* file fails.  Uploads of one name are the same file, so the records are  *)
(* counted name by name.                                                   *)
(***************************************************************************)
C2_FileFailureIsolated ==
    response # Null /\ criteria # MalformedJSON =>
        /\ "files" \in DOMAIN response
        /\ \A i \in 1..Len(batch) :
               LET file == batch[i]
                   Same(f) == f = file
                   Named(r) == r.filename = file.originalName
                   Failure(r) == Named(r) /\ IsErrorRecord(r)
                   Normal(r) == IsNormalResult(r, file.buffer, file.outcomes,
                                               file.originalName)
               IN  /\ UploadFails(file)
                      => /\ Occurrences(response.files, Failure)
                              = Occurrences(batch, Same)
                         /\ Occurrences(response.files, Named)
                              = Occurrences(batch, Same)
                   /\ ~UploadFails(file) /\ IsPsd(file.originalName)
                      => Occurrences(response.files, Normal)
                              = Occurrences(batch, Same)

\* an entry the expander passes to the parser: not an OS artifact, named as
\* a document, not a directory marker
IsDocumentEntry(entry) ==
    /\ ~includes(entry.name, <<"_", "_", "M", "A", "C", "O", "S", "X">>)
    /\ ~startsWith(entry.name, <<".", "_">>)
    /\ endsWith(toLowerCase(entry.name), DotPsd)
    /\ ~entry.dir

EntryFails(entry) ==
    ~entry.readable \/ AnalysisFails(entry.buffer, entry.outcomes, entry.name)

(***************************************************************************)
(* C3: when either archive expander has gone through an archive, every     *)
(* document entry has its own result, in the stored order: an error record *)
(* for an entry whose payload read or analysis fails, the normal result    *)
(* for every other entry, the entries after a failing one included.        *)
(***************************************************************************)
C3_EntryFailureIsolated ==
    zipRun # Null /\ zipRun.done =>
        LET documents == SelectSeq(batch[fileIdx + 1].entries, IsDocumentEntry)
        IN  /\ Len(zipRun.results) = Len(documents)
            /\ \A k \in 1..Len(documents) :
                   k <= Len(zipRun.results) =>
                   LET entry == documents[k]
                       r == zipRun.results[k]
                   IN  /\ r.filename = entry.name
                       /\ IF EntryFails(entry) THEN IsErrorRecord(r)
                          ELSE IsNormalResult(r, entry.buffer, entry.outcomes,
                                              entry.name)

(***************************************************************************)
(* Regex mode: one user-supplied pattern through the three validators and  *)
(* through gradeFile                                                       *)
(***************************************************************************)
UnclosedGroup == <<"(", "s", "m", "i", "t", "h">>
UnclosedClass == <<"[", "a", "-", "z">>
UnopenedGroup == <<"s", "m", "i", "t", "h", ")">>

\* patterns on which new RegExp throws a SyntaxError
Uncompilable == {UnclosedGroup, UnclosedClass, UnopenedGroup}

RegexPatterns == Uncompilable \cup {<<"s", "m", "i", "t", "h">>, <<"S", "m", "i", "t", "h", "_", "A">>}

RegexNames ==
    { DES222_Smith_A01 \o DotPsd, Draft \o DotPsd,
      <<"a">> \o UnclosedGroup \o DotPsd,
      UnclosedClass \o DotPsd,
      UnopenedGroup \o <<"_", "1">> \o DotPsd }

RegexCriteria(pattern, caseSensitive) ==
    [BatchCriteria EXCEPT !.filenamePattern = pattern,
                          !.filenamePatternType = "regex",
                          !.filenameCaseSensitive =
                              IF caseSensitive THEN "yes" ELSE "no"]

InitRegex ==
    /\ tplPattern \in RegexPatterns
    /\ tplName \in RegexNames
    /\ tplCase \in BOOLEAN
    /\ tplResult = Null
    /\ criteria = RegexCriteria(tplPattern, tplCase)
    /\ grading = BuildAnalysis(DocLayered, <<>>, tplName, 1000)
    /\ graded = Null
    /\ IdleParse /\ IdleBatch /\ IdleCall

\* the same candidate through the grading matcher, the preview and the server
ValidateRegex ==
    /\ tplResult = Null
    /\ tplResult' =
          [processor |-> checkFilename(tplName, tplPattern, "regex", tplCase),
           preview |-> PreviewValidateFilename(tplName, tplPattern, "regex", tplCase),
           server |-> validateFilenamePattern(tplName, tplPattern, "regex", tplCase)]
    /\ UNCHANGED <<tplPattern, tplName, tplCase>>
    /\ UNCHANGED <<parseVars, gradeVars, batchVars, callVars>>

GradeRegex ==
    /\ graded = Null
    /\ graded' = gradeFile(grading, criteria)
    /\ UNCHANGED <<criteria, grading, parseVars, batchVars, tplVars, callVars>>

NextRegex == ValidateRegex \/ GradeRegex

SpecRegex == InitRegex /\ [][NextRegex]_vars

(***************************************************************************)
(* C11: in regex mode a pattern that fails to compile makes the filename   *)
(* check answer false for every candidate name, in the grading matcher,    *)
(* the preview and the server; nothing is raised, and gradeFile scores the *)
(* filename rule as an ordinary failed rule: its check is there, not       *)
(* passed, worth 0 of the filename points, which count in maxScore, and    *)
(* the result carries no error.                                            *)
(***************************************************************************)
C11_UncompilablePatternIsNonMatch ==
    tplPattern \in Uncompilable =>
        /\ tplResult # Null => NoneAccepts
        /\ graded # Null =>
              /\ "error" \notin DOMAIN graded
              /\ graded.checks[1].criterion = "Filename"
              /\ ~graded.checks[1].passed
              /\ graded.checks[1].points = 0
              /\ graded.maxScore = SumPossible(graded.checks, criteria)
              /\ graded.score = SumAwarded(Tail(graded.checks))

C11_Witness ==
    /\ tplPattern = UnclosedGroup
    /\ tplName = <<"a">> \o UnclosedGroup \o DotPsd
    /\ tplResult # Null /\ NoneAccepts
    /\ graded # Null /\ ~graded.checks[1].passed
    /\ graded.maxScore > graded.score

\* ---------------------------------------------------------------------------
\* Canvas submission filenames: parseCanvasFilename and processPSDFileCanvas
\* ---------------------------------------------------------------------------

Underscore == "_"
LowerSet == {LowerLetters[k] : k \in 1..26}

\* filename.replace(/\.(psd|zip)$/i, '')
StripPsdOrZip(filename) ==
    IF endsWith(toLowerCase(filename), DotPsd)
          \/ endsWith(toLowerCase(filename), DotZip)
    THEN SubSeq(filename, 1, Len(filename) - 4) ELSE filename

\* parts.length < 5
TooFewSegmentsOfFour(parts) == Len(parts) < 4
TooFewSegments(parts) == Len(parts) < 5

\* isLate ? 2 : 1, as a position counted from 1
StartIdxUnshifted(isLate) == 2
StartIdx(isLate) == IF isLate THEN 3 ELSE 2

Late == <<"L", "A", "T", "E">>

\* studentName.match(/^([a-z]+)([A-Z][a-z]+)?$/): Null, or the two groups
\* (the second one <<>> when it did not take part)
NameMatch(studentName) ==
    LET lower == {k \in 0..Len(studentName) :
                      \A j \in 1..k : studentName[j] \in LowerSet}
        run == CHOOSE k \in lower : \A j \in lower : j <= k
        rest == SubSeq(studentName, run + 1, Len(studentName))
    IN  IF run = 0 THEN Null
        ELSE IF rest = <<>> THEN <<SubSeq(studentName, 1, run), <<>>>>
        ELSE IF /\ Len(rest) >= 2
                /\ rest[1] \in UpperSet
                /\ \A j \in 2..Len(rest) : rest[j] \in LowerSet
        THEN <<SubSeq(studentName, 1, run), rest>>
        ELSE Null

parseCanvasFilename(filename) ==
    LET nameWithoutExt == StripPsdOrZip(filename)
        parts == split(nameWithoutExt, Underscore)
        isLate == parts[2] = Late
        startIdx == StartIdx(isLate)
        studentName == parts[1]
        nameMatch == NameMatch(studentName)
    IN  IF TooFewSegments(parts) THEN Null
        ELSE [studentName |-> studentName,
              isLate |-> isLate,
              submissionStatus |-> IF isLate THEN Late ELSE parts[2],
              userId |-> parts[startIdx],
              submissionId |-> parts[startIdx + 1],
              originalFilename |->
                  join(SubSeq(parts, startIdx + 2, Len(parts)), <<Underscore>>),
              firstName |-> IF nameMatch = Null THEN <<>> ELSE nameMatch[1],
              lastName |-> IF nameMatch = Null THEN studentName
                           ELSE IF nameMatch[2] = <<>> THEN nameMatch[1]
                           ELSE nameMatch[2]]

\* the server's checkFilename, for a criterion whose pattern holds no
\* {LASTNAME} and whose type does not hold 'name'
ServerCheckFilename(filename, fc) ==
    LET valid == validateFilenamePattern(filename, fc.pattern, fc.patternType,
                                         fc.caseSensitive)
    IN  [valid |-> valid,
         message |-> IF valid THEN <<>> ELSE <<"Incorrect">>]

Dash == <<" ", "-", " ">>

\* processPSDFileCanvas: optional fields are <<>> when never assigned
processPSDFileCanvas(file, crit) ==
    LET canvasInfo == parseCanvasFilename(file.originalname)
        isCanvas == canvasInfo # Null
        originalFilenameForChecking ==
            IF isCanvas THEN canvasInfo.originalFilename \o DotPsd
            ELSE file.originalname
        filenameToCheck ==
            IF originalFilenameForChecking # <<>>
            THEN originalFilenameForChecking ELSE file.originalname
        filenameCheck == ServerCheckFilename(filenameToCheck, crit.filename)
        points == crit.filename.points
    IN  [filename |-> file.originalname,
         displayName |-> IF isCanvas
                         THEN canvasInfo.lastName \o Dash
                                  \o canvasInfo.originalFilename
                         ELSE file.originalname,
         canvasData |-> canvasInfo,
         studentName |-> IF isCanvas THEN <<canvasInfo.lastName>> ELSE <<>>,
         canvasUserId |-> IF isCanvas THEN <<canvasInfo.userId>> ELSE <<>>,
         isLate |-> IF isCanvas THEN <<canvasInfo.isLate>> ELSE <<>>,
         originalFilenameForChecking |-> originalFilenameForChecking,
         checked |-> IF crit.filename.enabled THEN <<filenameToCheck>> ELSE <<>>,
         criteria |-> IF crit.filename.enabled THEN <<filenameCheck>> ELSE <<>>,
         maxScore |-> IF crit.filename.enabled THEN points ELSE 0,
         score |-> IF crit.filename.enabled /\ filenameCheck.valid
                   THEN points ELSE 0]

\* --- the filenames drawn

MaxTail == 2

JohnSmith == <<"j", "o", "h", "n", "S", "m", "i", "t", "h">>
SmithLower == <<"s", "m", "i", "t", "h">>
JohnSmithJr == JohnSmith \o <<"J", "r">>
Capitalised == <<"S", "m", "i", "t", "h">>
WithDigit == <<"j", "o", "h", "n", "2">>
StudentTokens == {JohnSmith, SmithLower, JohnSmithJr, Capitalised, WithDigit}

LateLower == <<"l", "a", "t", "e">>
UserId == <<"1", "2", "3", "4", "5">>
SubmissionId == <<"6", "7", "8", "9", "0">>
MyFile == <<"M", "y", "F", "i", "l", "e">>
Final == <<"v", "2">>

\* what may stand between the student token and the identifiers
StatusSegments == {<<>>, <<Late>>, <<LateLower>>}
IdSegments == {<<>>, <<UserId>>, <<UserId, SubmissionId>>}
TailSegments ==
    UNION {[1..n -> {MyFile, Final}] : n \in 0..MaxTail}
UploadExtensions == {<<>>, DotPsd, <<".", "P", "S", "D">>, DotZip}

CanvasNames ==
    {[segments |-> <<student>> \o status \o ids \o tail, ext |-> ext] :
        student \in StudentTokens, status \in StatusSegments,
        ids \in IdSegments, tail \in TailSegments, ext \in UploadExtensions}

Originalname(built) == join(built.segments, <<Underscore>>) \o built.ext

FilenameCriteria ==
    {[filename |-> [enabled |-> FALSE, pattern |-> <<>>, patternType |-> "exact",
                    caseSensitive |-> FALSE, points |-> 0]],
     [filename |-> [enabled |-> TRUE, pattern |-> MyFile, patternType |-> "exact",
                    caseSensitive |-> FALSE, points |-> 10]]}

InitCanvas ==
    /\ callee = "processPSDFileCanvas"
    /\ \E built \in CanvasNames, crit \in FilenameCriteria :
          argument = [file |-> [originalname |-> Originalname(built)],
                      built |-> built,
                      criteria |-> crit]
    /\ returned = Null
    /\ IdleParse /\ IdleGrade /\ IdleBatch /\ IdleTpl

ProcessCanvas ==
    /\ callee = "processPSDFileCanvas"
    /\ returned = Null
    /\ returned' = processPSDFileCanvas(argument.file, argument.criteria)
    /\ UNCHANGED <<callee, argument, parseVars, gradeVars, batchVars, tplVars>>

NextCanvas == ProcessCanvas

SpecCanvas == InitCanvas /\ [][NextCanvas]_vars

\* the segments the uploaded name was put together from
Segments == argument.built.segments
Decoded == returned.canvasData

\* C12: a submission is marked late exactly when the second segment is the
\* literal LATE; a late name gives userId, submissionId and originalFilename
\* from the third, the fourth and the remaining segments, any other name from
\* the second, the third and the remaining ones; and
\* johnSmith_LATE_12345_67890_MyFile with the document extension decodes to
\* isLate = true, userId 12345, submissionId 67890, originalFilename MyFile.
C12_LateShiftsFieldsByOne ==
    (callee = "processPSDFileCanvas" /\ returned # Null /\ Decoded # Null) =>
        /\ Decoded.isLate = (Segments[2] = Late)
        /\ Decoded.isLate =>
              /\ Decoded.userId = Segments[3]
              /\ Decoded.submissionId = Segments[4]
              /\ Decoded.originalFilename =
                    join(SubSeq(Segments, 5, Len(Segments)), <<Underscore>>)
        /\ ~Decoded.isLate =>
              /\ Decoded.userId = Segments[2]
              /\ Decoded.submissionId = Segments[3]
              /\ Decoded.originalFilename =
                    join(SubSeq(Segments, 4, Len(Segments)), <<Underscore>>)
        /\ (Segments = <<JohnSmith, Late, UserId, SubmissionId, MyFile>>
                /\ argument.built.ext = DotPsd) =>
              /\ Decoded.isLate
              /\ Decoded.userId = UserId
              /\ Decoded.submissionId = SubmissionId
              /\ Decoded.originalFilename = MyFile

C12_Witness ==
    /\ callee = "processPSDFileCanvas"
    /\ returned # Null
    /\ Segments = <<JohnSmith, Late, UserId, SubmissionId, MyFile>>
    /\ argument.built.ext = DotPsd
    /\ Decoded # Null
    /\ Decoded.isLate

\* C13: a name with fewer than five segments is not recognised, nothing is
\* raised and the document is checked under its uploaded name; a name with
\* five segments or more gives a submission record.
C13_FewerThanFiveSegmentsUnrecognised ==
    (callee = "processPSDFileCanvas" /\ returned # Null) =>
        /\ Len(Segments) < 5 =>
              /\ Decoded = Null
              /\ returned.originalFilenameForChecking = argument.file.originalname
              /\ returned.displayName = argument.file.originalname
              /\ argument.criteria.filename.enabled =>
                    returned.checked = <<argument.file.originalname>>
        /\ Len(Segments) >= 5 =>
              /\ Decoded # Null
              /\ Decoded.studentName = Segments[1]

C13_Witness ==
    /\ callee = "processPSDFileCanvas"
    /\ returned # Null
    /\ Len(Segments) = 4
    /\ Decoded = Null
    /\ returned.checked = <<argument.file.originalname>>

\* ---------------------------------------------------------------------------
\* extractLayers over layer trees of every shape
\* ---------------------------------------------------------------------------

MaxNodes == 6

RECURSIVE Forests(_)
\* the sequences of trees that hold n nodes together, names left empty
Forests(n) ==
    IF n = 0 THEN {<<>>}
    ELSE UNION {
            {<<IF kids = <<>> THEN Leaf(<<>>) ELSE Group(<<>>, kids)>> \o rest :
                kids \in Forests(k - 1), rest \in Forests(n - k)} :
            k \in 1..n}

RECURSIVE NameByPath(_, _)
\* every node named after the way to it: the k-th root is the k-th capital
\* letter, its j-th child that letter followed by the j-th letter, and so on
NameByPath(ls, prefix) ==
    [k \in 1..Len(ls) |->
        [ls[k] EXCEPT !.name = prefix \o <<UpperLetters[k]>>,
                      !.children = NameByPath(ls[k].children,
                                              prefix \o <<UpperLetters[k]>>)]]

Documents(n) ==
    {[DocLayered EXCEPT !.children = NameByPath(f, <<>>)] : f \in Forests(n)}

InitLayers ==
    /\ callee = "extractLayers"
    /\ \E n \in 0..MaxNodes : \E doc \in Documents(n) :
          argument = [psd |-> doc, nodes |-> n]
    /\ returned = Null
    /\ IdleParse /\ IdleGrade /\ IdleBatch /\ IdleTpl

ExtractLayers ==
    /\ callee = "extractLayers"
    /\ returned = Null
    /\ returned' = Returned(extractLayers(argument.psd))
    /\ UNCHANGED <<callee, argument, parseVars, gradeVars, batchVars, tplVars>>

NextLayers == ExtractLayers

SpecLayers == InitLayers /\ [][NextLayers]_vars

LetterIndex(c) == CHOOSE k \in 1..26 : UpperLetters[k] = c

\* the node named p is met before the node named q when the tree is walked
\* top first, parents before their children
WalkedBefore(p, q) ==
    \/ Len(p) < Len(q) /\ SubSeq(q, 1, Len(p)) = p
    \/ \E i \in 1..Len(p) :
          /\ i <= Len(q)
          /\ SubSeq(p, 1, i - 1) = SubSeq(q, 1, i - 1)
          /\ LetterIndex(p[i]) < LetterIndex(q[i])

RECURSIVE IsNodeOf(_, _)
\* the name is the way to a node of the forest
IsNodeOf(name, ls) ==
    /\ name # <<>>
    /\ LetterIndex(name[1]) <= Len(ls)
    /\ Len(name) > 1 => IsNodeOf(Tail(name), ls[LetterIndex(name[1])].children)

Layers == returned.value

NamesOf(layers) == [k \in 1..Len(layers) |-> layers[k].name]

ThreeRoots ==
    <<Leaf(<<"A">>), Leaf(<<"B">>), Leaf(<<"C">>)>>

\* C14: extractLayers returns one entry for each node of the source tree, in
\* the reverse of the order in which a top-first walk (parents before their
\* children) meets the nodes; the roots A, B, C come out as C, B, A.
C14_ReversedPreOrder ==
    (callee = "extractLayers" /\ returned # Null) =>
        /\ Len(Layers) = argument.nodes
        /\ \A k \in 1..Len(Layers) :
              /\ IsNodeOf(Layers[k].name, argument.psd.children)
              /\ Layers[k].depth = Len(Layers[k].name) - 1
        /\ \A i, j \in 1..Len(Layers) :
              i < j => WalkedBefore(Layers[j].name, Layers[i].name)
        /\ argument.psd.children = ThreeRoots =>
              NamesOf(Layers) = <<<<"C">>, <<"B">>, <<"A">>>>

C14_Witness ==
    /\ callee = "extractLayers"
    /\ returned # Null
    /\ argument.psd.children = ThreeRoots
    /\ Len(Layers) = 3

\* ---------------------------------------------------------------------------
\* OS artifacts in archives
\* ---------------------------------------------------------------------------

\* the four kinds of OS artifact: a sentinel name in any letter case, a name
\* starting with ._, a name holding the metadata folder marker, a name with
\* a temporary-file suffix
IsOsArtifact(name) ==
    \/ \E k \in 1..Len(systemFiles) :
          toLowerCase(name) = toLowerCase(systemFiles[k])
    \/ startsWith(name, <<".", "_">>)
    \/ includes(name, <<"_", "_", "M", "A", "C", "O", "S", "X">>)
    \/ endsWith(toLowerCase(name), <<".", "t", "m", "p">>)
    \/ endsWith(toLowerCase(name), <<".", "t", "e", "m", "p">>)

\* the archive being gone through, as it was uploaded
OpenArchive == batch[fileIdx + 1].entries

ArtifactsOf(entries) == {entries[k].name : k \in {j \in 1..Len(entries) : IsOsArtifact(entries[j].name)}}

OneArtifactOneDocument(entries) ==
    /\ Len(entries) = 2
    /\ \E k \in 1..2 :
          /\ IsOsArtifact(entries[k].name)
          /\ ~IsOsArtifact(entries[3 - k].name)
          /\ IsDocumentEntry(entries[3 - k])
          /\ ~EntryFails(entries[3 - k])

\* C15: in either archive expander an entry that is an OS artifact is never
\* handed to the parser and no result stands for it; an archive of one
\* artifact and one valid document gives exactly one result, the document's.
C15_ArtifactSkipped ==
    zipRun # Null =>
        /\ \A k \in 1..Len(zipRun.parsed) : ~IsOsArtifact(zipRun.parsed[k])
        /\ \A k \in 1..Len(zipRun.results) :
              \A name \in ArtifactsOf(OpenArchive) :
                  zipRun.results[k].filename \notin {name, basename(name)}
        /\ zipRun.done /\ OneArtifactOneDocument(OpenArchive) =>
              /\ Len(zipRun.results) = 1
              /\ ~IsErrorRecord(zipRun.results[1])
              /\ zipRun.results[1].filename = EntryA

C15_Witness ==
    /\ zipRun # Null /\ zipRun.done
    /\ OneArtifactOneDocument(OpenArchive)
    /\ OpenArchive[1].name = <<".", "_", "b", ".", "p", "s", "d">>
    /\ Len(zipRun.results) = 1
    /\ zipRun.parsed = <<EntryA>>

\* ---------------------------------------------------------------------------
\* checkFontRequirements
\* ---------------------------------------------------------------------------

\* Set.prototype.add on a set kept in insertion order; a font that is
\* undefined or '' (written <<>>) is not added
AddFont(fonts, font) ==
    IF font = <<>> \/ \E k \in 1..Len(fonts) : fonts[k] = font THEN fonts
    ELSE Append(fonts, font)

RECURSIVE AddFonts(_, _)
AddFonts(fonts, more) ==
    IF more = <<>> THEN fonts
    ELSE AddFonts(AddFont(fonts, Head(more)), Tail(more))

\* lines 1384-1404: what one text layer adds
TextFonts(text) ==
    (IF text.style = Null THEN <<>>
     ELSE <<text.style.font, text.style.fontName, text.style.fontFamily>>)
        \o text.runArray

RECURSIVE extractFonts(_, _)
\* extractFonts(layers), the fonts found so far passed along
extractFonts(layers, usedFonts) ==
    IF layers = <<>> THEN usedFonts
    ELSE LET layer == Head(layers)
             own == IF layer.text = Null THEN usedFonts
                    ELSE AddFonts(usedFonts, TextFonts(layer.text))
         IN  extractFonts(Tail(layers), extractFonts(layer.children, own))

\* result.usedFonts.length === 0
NoFontsShortcutNever(usedFonts) == FALSE
NoFontsShortcut(usedFonts) == usedFonts = <<>>

\* approvedList.some(approved =>
\*     fontLower.includes(approved) || approved.includes(fontLower))
IsApproved(font, approvedFonts) ==
    \E k \in 1..Len(approvedFonts) :
        LET approved == trim(toLowerCase(approvedFonts[k]))
        IN  includes(toLowerCase(font), approved)
                \/ includes(approved, toLowerCase(font))

\* !result.usedFonts.some(font =>
\*     font.toLowerCase().includes(reqFont.toLowerCase()))
IsMissing(reqFont, usedFonts) ==
    ~\E k \in 1..Len(usedFonts) :
        includes(toLowerCase(usedFonts[k]), toLowerCase(reqFont))

checkFontRequirements(psdData, crit) ==
    LET usedFonts == extractFonts(psdData.children, <<>>)
        Unapproved(font) == ~IsApproved(font, crit.approvedFonts)
        Missing(reqFont) == IsMissing(reqFont, usedFonts)
        unapproved == IF crit.approvedFonts = <<>> THEN <<>>
                      ELSE SelectSeq(usedFonts, Unapproved)
        missing == SelectSeq(crit.requiredFonts, Missing)
    IN  IF NoFontsShortcut(usedFonts)
        THEN [valid |-> TRUE, usedFonts |-> <<>>, violations |-> <<>>,
              fontDetails |-> <<>>, hasNoFonts |-> TRUE]
        ELSE [valid |-> unapproved = <<>> /\ missing = <<>>,
              usedFonts |-> usedFonts,
              violations |->
                  [k \in 1..Len(unapproved) |->
                      <<"Unapproved font: ", unapproved[k]>>]
                  \o [k \in 1..Len(missing) |->
                      <<"Missing required font: ", missing[k]>>],
              fontDetails |->
                  [k \in 1..Len(usedFonts) |->
                      [name |-> usedFonts[k],
                       approved |-> crit.approvedFonts = <<>>
                                       \/ IsApproved(usedFonts[k],
                                                     crit.approvedFonts)]],
              hasNoFonts |-> FALSE]

\* --- the documents and font lists drawn

MaxLayers == 2

Arial == <<"A", "r", "i", "a", "l">>
ArialBold == Arial \o <<" ", "B", "o", "l", "d">>
Times == <<"T", "i", "m", "e", "s">>
Comic == <<"C", "o", "m", "i", "c">>

NoStyleFont == [font |-> <<>>, fontName |-> <<>>, fontFamily |-> <<>>]

FontLayer(text, kids) == [text |-> text, children |-> kids]

\* a raster layer; text layers with no font information at all, with a
\* style that names no font, with a font in the style, with fonts in the
\* run array only, with the same font under two attributes
PlainLayers ==
    { FontLayer(Null, <<>>),
      FontLayer([style |-> Null, runArray |-> <<>>], <<>>),
      FontLayer([style |-> NoStyleFont, runArray |-> <<<<>>>>], <<>>),
      FontLayer([style |-> [NoStyleFont EXCEPT !.fontName = Arial],
                 runArray |-> <<>>], <<>>),
      FontLayer([style |-> Null, runArray |-> <<Times, ArialBold, Times>>], <<>>),
      FontLayer([style |-> [NoStyleFont EXCEPT !.font = Times,
                                               !.fontFamily = Times],
                 runArray |-> <<>>], <<>>) }

FontLayers ==
    PlainLayers \cup {FontLayer(Null, <<layer>>) : layer \in PlainLayers}

FontDocuments ==
    {[children |-> ls] : ls \in UNION {[1..n -> FontLayers] : n \in 0..MaxLayers}}

ApprovedLists ==
    {<<>>, <<Arial>>, <<<<" ">> \o toLowerCase(Times) \o <<" ">>>>, <<Comic, ArialBold>>}
RequiredLists == {<<>>, <<toLowerCase(Arial)>>, <<Comic, Times>>}

InitFonts ==
    /\ callee = "checkFontRequirements"
    /\ \E doc \in FontDocuments, approved \in ApprovedLists,
          required \in RequiredLists :
          argument = [psdData |-> doc,
                      criteria |-> [approvedFonts |-> approved,
                                    requiredFonts |-> required]]
    /\ returned = Null
    /\ IdleParse /\ IdleGrade /\ IdleBatch /\ IdleTpl

CheckFonts ==
    /\ callee = "checkFontRequirements"
    /\ returned = Null
    /\ returned' = checkFontRequirements(argument.psdData, argument.criteria)
    /\ UNCHANGED <<callee, argument, parseVars, gradeVars, batchVars, tplVars>>

NextFonts == CheckFonts

SpecFonts == InitFonts /\ [][NextFonts]_vars

RECURSIVE NamesNoFont(_)
\* no text layer of the forest names a font under any attribute
NamesNoFont(layers) ==
    \A k \in 1..Len(layers) :
        /\ layers[k].text # Null =>
              /\ layers[k].text.style # Null =>
                    /\ layers[k].text.style.font = <<>>
                    /\ layers[k].text.style.fontName = <<>>
                    /\ layers[k].text.style.fontFamily = <<>>
              /\ \A j \in 1..Len(layers[k].text.runArray) :
                    layers[k].text.runArray[j] = <<>>
        /\ NamesNoFont(layers[k].children)

\* C16: for a document in which no font is detected checkFontRequirements
\* answers valid with no violation, whatever the approved and the required
\* font lists hold.
C16_NoFontsPasses ==
    (callee = "checkFontRequirements" /\ returned # Null
        /\ NamesNoFont(argument.psdData.children)) =>
            /\ returned.valid
            /\ returned.violations = <<>>
            /\ returned.usedFonts = <<>>

C16_Witness ==
    /\ callee = "checkFontRequirements"
    /\ returned # Null
    /\ NamesNoFont(argument.psdData.children)
    /\ Len(argument.psdData.children) = 2
    /\ argument.psdData.children[1].text # Null
    /\ argument.criteria.approvedFonts = <<Arial>>
    /\ argument.criteria.requiredFonts = <<Comic, Times>>
    /\ returned.valid

\* ---------------------------------------------------------------------------
\* The batch summary
\* ---------------------------------------------------------------------------

\* the result scores at least 70% of its maxScore
ScoresPassMark(r) == r.score * 100 >= 70 * r.maxScore

\* C17: in the summary totalFiles is the number of results, passed the
\* number of results that score at least 70% of their maxScore, failed the
\* number of all the other results, so that passed + failed = totalFiles.
C17_SummaryCountsEveryResult ==
    (response # Null /\ "summary" \in DOMAIN response) =>
        /\ response.summary.totalFiles = Len(response.files)
        /\ response.summary.passed = Occurrences(response.files, ScoresPassMark)
        /\ response.summary.failed =
              Len(response.files) - Occurrences(response.files, ScoresPassMark)
        /\ response.summary.passed + response.summary.failed
              = response.summary.totalFiles

\* ---------------------------------------------------------------------------
\* The order of the results
\* ---------------------------------------------------------------------------

\* the name a result of the entry carries: the stored name in
\* FileProcessor.processZipFile, its last path segment on the server
ResultName(entry) ==
    IF handler = "app.post" THEN basename(entry.name) ELSE entry.name

EntryNames(entries) == [k \in 1..Len(entries) |-> ResultName(entries[k])]

NamesOfResults(rs) == [k \in 1..Len(rs) |-> rs[k].filename]

RECURSIVE InputNames(_)
\* the uploads in input order, every archive followed by its entries in
\* stored order
InputNames(files) ==
    IF files = <<>> THEN <<>>
    ELSE <<Head(files).originalName>> \o EntryNames(Head(files).entries)
             \o InputNames(Tail(files))

RECURSIVE InOrderOf(_, _)
\* names can be read off order from left to right, skipping what it skips
InOrderOf(names, order) ==
    \/ names = <<>>
    \/ /\ order # <<>>
       /\ IF Head(names) = Head(order)
          THEN InOrderOf(Tail(names), Tail(order))
          ELSE InOrderOf(names, Tail(order))

\* C18: the results stand in input order, those of an earlier upload before
\* those of a later one, and the results of one archive in the stored order
\* of its entries, whichever uploads or entries fail.
C18_ResultsInInputOrder ==
    /\ InOrderOf(NamesOfResults(results), InputNames(batch))
    /\ zipRun # Null =>
          /\ InOrderOf(NamesOfResults(zipRun.results), EntryNames(OpenArchive))
          /\ InOrderOf(NamesOfResults(results),
                       InputNames(SubSeq(batch, 1, fileIdx)))
    /\ (response # Null /\ "files" \in DOMAIN response) =>
          response.files = results

C18_Witness ==
    /\ handler = "processFiles"
    /\ response # Null
    /\ Len(batch) = 2
    /\ IsPsd(batch[1].originalName) /\ UploadFails(batch[1])
    /\ IsZip(batch[2].originalName)
    /\ Len(batch[2].entries) = 2
    /\ EntryFails(batch[2].entries[1])
    /\ Len(response.files) = 3
    /\ IsErrorRecord(response.files[1])
    /\ IsErrorRecord(response.files[2])
    /\ ~IsErrorRecord(response.files[3])

\* ---------------------------------------------------------------------------
\* The header reader on headers of every kind
\* ---------------------------------------------------------------------------

\* 0, 1, 50, 100, 30000, 30001 and 2^31 + 100 as four big-endian bytes
HeaderDims == {<<0, 0, 0, 0>>, <<0, 0, 0, 1>>, <<0, 0, 0, 50>>, <<0, 0, 0, 100>>,
               <<0, 0, 117, 48>>, <<0, 0, 117, 49>>, <<128, 0, 0, 100>>}
HeaderDepths == {0, 1, 3, 8, 16, 32}
\* Bitmap, RGB, Lab, two codes without a name
HeaderModes == {0, 3, 9, 5, 259}

HeaderBuffers ==
    { SubSeq(MkHeader(sig, ver, h, w, d, m) \o Padding, 1, n) :
        sig \in SigChoices, ver \in VersionChoices, h \in HeaderDims,
        w \in HeaderDims, d \in HeaderDepths, m \in HeaderModes,
        n \in (HeaderSize - MaxCut)..(HeaderSize + MaxPad) }

InitHeader ==
    /\ callee = "extractBasicPSDInfo"
    /\ argument \in HeaderBuffers
    /\ returned = Null
    /\ IdleParse /\ IdleGrade /\ IdleBatch /\ IdleTpl

ExtractHeader ==
    /\ callee = "extractBasicPSDInfo"
    /\ returned = Null
    /\ returned' = extractBasicPSDInfo(argument)
    /\ UNCHANGED <<callee, argument, parseVars, gradeVars, batchVars, tplVars>>

NextHeader == ExtractHeader

SpecHeader == InitHeader /\ [][NextHeader]_vars

RECURSIVE BigEndian(_, _, _)
\* the unsigned integer the n bytes from offset off spell, first byte highest
BigEndian(buf, off, n) ==
    IF n = 0 THEN 0
    ELSE BigEndian(buf, off, n - 1) * 256 + buf[off + n]

\* the names of the colour-mode codes
ModeNames ==
    [code \in {0, 1, 2, 3, 4, 7, 8, 9} |->
        CASE code = 0 -> "Bitmap" [] code = 1 -> "Grayscale"
          [] code = 2 -> "Indexed" [] code = 3 -> "RGB" [] code = 4 -> "CMYK"
          [] code = 7 -> "Multichannel" [] code = 8 -> "Duotone"
          [] code = 9 -> "Lab"]

\* the buffer holds the 26 bytes of a header with the signature, dimensions
\* in 1..30000 and an allowed bit depth
WellFormedHeader(buf) ==
    /\ Len(buf) >= 26
    /\ SubSeq(buf, 1, 4) = <<56, 66, 80, 83>>
    /\ buf[15] = 0 /\ buf[16] = 0 /\ BigEndian(buf, 16, 2) \in 1..30000
    /\ buf[19] = 0 /\ buf[20] = 0 /\ BigEndian(buf, 20, 2) \in 1..30000
    /\ BigEndian(buf, 22, 2) \in {1, 8, 16, 32}

\* C19: for a buffer with the signature, width and height in 1..30000 and a
\* bit depth of 1, 8, 16 or 32 the header reader returns a BasicInfo whose
\* version, height, width and bitDepth are the big-endian unsigned integers
\* at offsets 4 (2 bytes), 14 (4 bytes), 18 (4 bytes) and 22 (2 bytes) and
\* whose colorMode is the name of the 2-byte code at offset 24; height 50,
\* width 100, bit depth 8 and code 3 give 100, 50, 8 and RGB.
C19_HeaderFieldsBigEndian ==
    (callee = "extractBasicPSDInfo" /\ returned # Null
        /\ WellFormedHeader(argument)) =>
            /\ returned.ok
            /\ returned.value.version = BigEndian(argument, 4, 2)
            /\ returned.value.height = BigEndian(argument, 14, 4)
            /\ returned.value.width = BigEndian(argument, 18, 4)
            /\ returned.value.bitDepth = BigEndian(argument, 22, 2)
            /\ returned.value.rawColorMode = BigEndian(argument, 24, 2)
            /\ BigEndian(argument, 24, 2) \in DOMAIN ModeNames =>
                  returned.value.colorMode = ModeNames[BigEndian(argument, 24, 2)]
            /\ BigEndian(argument, 24, 2) \notin DOMAIN ModeNames =>
                  \A code \in DOMAIN ModeNames :
                      returned.value.colorMode # ModeNames[code]
            /\ (BigEndian(argument, 14, 4) = 50 /\ BigEndian(argument, 18, 4) = 100
                    /\ BigEndian(argument, 22, 2) = 8
                    /\ BigEndian(argument, 24, 2) = 3) =>
                  /\ returned.value.width = 100 /\ returned.value.height = 50
                  /\ returned.value.bitDepth = 8
                  /\ returned.value.colorMode = "RGB"

C19_Witness ==
    /\ callee = "extractBasicPSDInfo"
    /\ returned # Null
    /\ WellFormedHeader(argument)
    /\ BigEndian(argument, 4, 2) = 2
    /\ BigEndian(argument, 14, 4) = 50 /\ BigEndian(argument, 18, 4) = 100
    /\ BigEndian(argument, 22, 2) = 8 /\ BigEndian(argument, 24, 2) = 3
    /\ returned.ok /\ returned.value.colorMode = "RGB"

\* ---------------------------------------------------------------------------
\* The order of the decode strategies
\* ---------------------------------------------------------------------------

\* strategy 1 keeps the composite image and the thumbnail, strategy 2 skips
\* both, strategy 3 skips the layers as well
StrategyOrder == <<1, 2, 3>>

\* C20: the three strategies are tried in the fixed order 1, 2, 3: a
\* strategy is invoked only when it is the first or the one before it has
\* raised, none is invoked once one has returned, and none is invoked twice
\* for one document.
C20_StrategiesInOrderOnce ==
    /\ [](/\ invoked = SubSeq(StrategyOrder, 1, Len(invoked))
          /\ \A k \in 1..Len(invoked) :
                \/ outcomes[invoked[k]].raises
                \/ k = Len(invoked))
    /\ [][invoked' # invoked =>
            /\ invoked' = Append(invoked, Len(invoked) + 1)
            /\ Len(invoked) > 0 => outcomes[Len(invoked)].raises
            /\ psd = Null /\ ret = Null]_vars

C20_Witness ==
    /\ pc = "done"
    /\ outcomes[1].raises /\ ~outcomes[2].raises
    /\ invoked = <<1, 2>>
    /\ ret # Null

\* ---------------------------------------------------------------------------
\* The diagnostic note
\* ---------------------------------------------------------------------------

\* the strategies that raised before the result was produced
RaisedStrategies == {k \in 1..Len(invoked) : outcomes[invoked[k]].raises}

\* the note holds the message the strategy raised with
NoteRecords(note, k) ==
    \E p \in 1..Len(note) : note[p] = outcomes[k].message

\* C21: the parseNote of the analysis returned for a document records the
\* failure of every strategy that raised before the result was produced.
C21_NoteRecordsEveryFailure ==
    (pc = "done" /\ ret.ok) =>
        \A k \in RaisedStrategies : NoteRecords(ret.value.parseNote, k)

\* ---------------------------------------------------------------------------
\* The font name of a text layer
\* ---------------------------------------------------------------------------

TextStyles == {Null, [fontName |-> <<>>], [fontName |-> Arial]}
RunArrays == {<<>>, <<[Font |-> <<>>]>>, <<[Font |-> Times], [Font |-> Arial]>>}
StylesLists ==
    {<<>>, <<[font |-> <<>>]>>, <<[font |-> Comic]>>,
     <<[font |-> Comic], [font |-> Times]>>}

Texts ==
    [style : TextStyles, runArray : RunArrays, styles : StylesLists]

TextLayer(text) ==
    [Leaf(<<"T", "i", "t", "l", "e">>) EXCEPT !.hasText = TRUE, !.text = text]

\* the text layer alone, above a raster layer, inside a group
TextDocuments ==
    UNION {{ [psd |-> [DocLayered EXCEPT !.children = <<TextLayer(text)>>],
              nodes |-> 1, text |-> text],
             [psd |-> [DocLayered EXCEPT !.children =
                          <<TextLayer(text), Leaf(Background)>>],
              nodes |-> 2, text |-> text],
             [psd |-> [DocLayered EXCEPT !.children =
                          <<Group(<<"A", "r", "t">>, <<TextLayer(text)>>)>>],
              nodes |-> 2, text |-> text] } : text \in Texts}

InitText ==
    /\ callee = "extractLayers"
    /\ argument \in TextDocuments
    /\ returned = Null
    /\ IdleParse /\ IdleGrade /\ IdleBatch /\ IdleTpl

NextText == ExtractLayers

SpecText == InitText /\ [][NextText]_vars

\* the values of the three sources, in probing order
FontSources(text) ==
    << IF text.style = Null THEN <<>> ELSE text.style.fontName,
       IF text.runArray = <<>> THEN <<>> ELSE text.runArray[1].Font,
       IF text.styles = <<>> THEN <<>> ELSE text.styles[1].font >>

FirstNonEmpty(values) ==
    IF \A k \in 1..Len(values) : values[k] = <<>> THEN <<>>
    ELSE values[CHOOSE k \in 1..Len(values) :
                    values[k] # <<>> /\ \A j \in 1..(k - 1) : values[j] = <<>>]

\* C22: the font name extracted for a text layer is the first non-empty
\* value among the direct style attribute, the first entry of the engine
\* data's run array and the first entry of the styles list, in that order;
\* a later source never replaces the value of an earlier one.
C22_FirstFontSourceWins ==
    (callee = "extractLayers" /\ returned # Null) =>
        \A k \in 1..Len(Layers) :
            Layers[k].isText =>
                Layers[k].fontName = FirstNonEmpty(FontSources(argument.text))

\* ---------------------------------------------------------------------------
\* The student-name token
\* ---------------------------------------------------------------------------

\* the places where a leading lowercase run ends and a capitalised run that
\* reaches the end of the token begins
Boundaries(token) ==
    {b \in 1..(Len(token) - 2) :
        /\ \A j \in 1..b : token[j] \in LowerSet
        /\ token[b + 1] \in UpperSet
        /\ \A j \in (b + 2)..Len(token) : token[j] \in LowerSet}

\* C23: when the student-name token of a recognised name has no boundary
\* between a leading lowercase run and a trailing capitalised run, lastName
\* is the whole token and firstName is empty; when it has one, firstName is
\* the lowercase run and lastName the capitalised run.
C23_NameTokenSplit ==
    (callee = "processPSDFileCanvas" /\ returned # Null /\ Decoded # Null) =>
        LET token == Segments[1]
        IN  /\ Boundaries(token) = {} =>
                  /\ Decoded.lastName = token
                  /\ Decoded.firstName = <<>>
            /\ \A b \in Boundaries(token) :
                  /\ Decoded.firstName = SubSeq(token, 1, b)
                  /\ Decoded.lastName = SubSeq(token, b + 1, Len(token))

\* ---------------------------------------------------------------------------
\* The maxScore of an error record
\* ---------------------------------------------------------------------------

\* C24: under any criteria getMaxScore, which gives an error record its
\* maxScore, equals the maxScore gradeFile returns for an analysis, a
\* required-layers value of only whitespace or commas included.
C24_ErrorRecordMaxScoreAsGraded ==
    graded # Null =>
        /\ getMaxScore(criteria) = graded.maxScore
        /\ ErrorRecord(grading.filename, <<"decode error">>, criteria).maxScore
              = graded.maxScore

\* ---------------------------------------------------------------------------
\* The three template matchers side by side
\* ---------------------------------------------------------------------------

\* C25: for every template, candidate name and case-sensitivity setting the
\* preview's matcher, the server's matcher and the template branch of the
\* grading matcher give the same answer, for a hyphenated LASTNAME and for
\* an ASSIGNMENT with a trailing letter too.
C25_MatchersAgree ==
    tplResult # Null =>
        /\ tplResult.preview = tplResult.server
        /\ tplResult.server = tplResult.processor

\* ---------------------------------------------------------------------------
\* The worth of a rule
\* ---------------------------------------------------------------------------

\* the point value configured for the rule: the value given, 0 included, and
\* the default where none is given
ConfiguredWorth(rule, crit) ==
    LET given == IF rule = "Filename" THEN crit.filenamePoints
                 ELSE crit.pointsPerCriterion
    IN  IF given # <<>> THEN given[1]
        ELSE IF rule = "Filename" THEN 10 ELSE 20

RECURSIVE SumConfigured(_, _, _)
\* the configured worth of the checks, of the passed ones only when
\* passedOnly
SumConfigured(checks, crit, passedOnly) ==
    IF checks = <<>> THEN 0
    ELSE (IF passedOnly /\ ~Head(checks).passed THEN 0
          ELSE ConfiguredWorth(Head(checks).criterion, crit))
         + SumConfigured(Tail(checks), crit, passedOnly)

\* C26: every evaluated rule is worth its configured point value, 0
\* included: a passed rule adds it to score and maxScore, a failed rule to
\* maxScore only, and a rule configured with 0 points changes neither.
C26_RuleWorthItsConfiguredPoints ==
    graded # Null =>
        /\ graded.maxScore = SumConfigured(graded.checks, criteria, FALSE)
        /\ graded.score = SumConfigured(graded.checks, criteria, TRUE)
        /\ \A k \in 1..Len(graded.checks) :
              graded.checks[k].points =
                  IF graded.checks[k].passed
                  THEN ConfiguredWorth(graded.checks[k].criterion, criteria)
                  ELSE 0

\* ---------------------------------------------------------------------
\* Font violations (checkFontRequirements, lines 1423-1467)

\* an entry of the approved list occurs in the used font's name, letter
\* case and the entry's surrounding blanks aside
EntryOccursIn(font, approvedFonts) ==
    \E k \in 1..Len(approvedFonts) :
        includes(toLowerCase(font), trim(toLowerCase(approvedFonts[k])))

\* the used fonts that should be reported, by position
UnmatchedFonts(usedFonts, approvedFonts) ==
    IF approvedFonts = <<>> THEN {}
    ELSE {k \in 1..Len(usedFonts) : ~EntryOccursIn(usedFonts[k], approvedFonts)}

\* the required fonts that should be reported, by position
AbsentFonts(usedFonts, requiredFonts) ==
    {k \in 1..Len(requiredFonts) :
        \A j \in 1..Len(usedFonts) :
            ~includes(toLowerCase(usedFonts[j]), toLowerCase(requiredFonts[k]))}

TimesListed(seq, item) == Cardinality({k \in 1..Len(seq) : seq[k] = item})

\* C27: for a document with at least one detected font, the rule is marked
\* failed exactly when the violations list is non-empty, and the list holds
\* one violation for each used font in which no entry of the approved list
\* occurs (none when the approved list is empty), one for each required
\* font that occurs in no used font, and nothing else.
C27_ViolationsAreTheUnmatchedAndTheAbsent ==
    (callee = "checkFontRequirements" /\ returned # Null
        /\ returned.usedFonts # <<>>) =>
        LET used == returned.usedFonts
            approved == argument.criteria.approvedFonts
            required == argument.criteria.requiredFonts
            unmatched == UnmatchedFonts(used, approved)
            absent == AbsentFonts(used, required)
        IN  /\ returned.valid <=> returned.violations = <<>>
            /\ \A k \in unmatched :
                  TimesListed(returned.violations,
                              <<"Unapproved font: ", used[k]>>) = 1
            /\ \A k \in absent :
                  TimesListed(returned.violations,
                              <<"Missing required font: ", required[k]>>) = 1
            /\ Len(returned.violations)
                  = Cardinality(unmatched) + Cardinality(absent)

\* ---------------------------------------------------------------------
\* Decoding an LMS name (parseCanvasFilename, lines 1600-1642)

\* the uploaded name is name[_LATE]_userId_submissionId_original.psd with
\* an original filename of one segment or more
FollowsConvention ==
    /\ callee = "processPSDFileCanvas"
    /\ argument.built.ext = DotPsd
    /\ \E student \in StudentTokens, status \in {<<>>, <<Late>>},
          tail \in TailSegments :
          /\ tail # <<>>
          /\ Segments = <<student>> \o status \o <<UserId, SubmissionId>> \o tail

\* the original filename the uploaded name was put together from
OriginalOf(segments) ==
    LET from == IF segments[2] = Late THEN 5 ELSE 4
    IN  join(SubSeq(segments, from, Len(segments)), <<Underscore>>)

\* C28: decoding inverts the naming convention: a name put together as
\* name[_LATE]_userId_submissionId_original.psd decodes to exactly that
\* userId, submissionId, late flag and original filename, whether the
\* original filename holds underscores of its own or not.
C28_DecodingInvertsTheConvention ==
    (FollowsConvention /\ returned # Null) =>
        /\ Decoded # Null
        /\ Decoded.userId = UserId
        /\ Decoded.submissionId = SubmissionId
        /\ Decoded.isLate = (Segments[2] = Late)
        /\ Decoded.originalFilename = OriginalOf(Segments)

\* ---------------------------------------------------------------------
\* The status of a file in the summary and in the exported CSV
\* (app.post lines 969-989; part_000 downloadCSV, lines 1150-1180)

\* ScoreUtils.getLetterGrade, part_000 lines 237-252
getLetterGrade(percentage) ==
    IF percentage >= 97 THEN "A+"
    ELSE IF percentage >= 93 THEN "A"
    ELSE IF percentage >= 90 THEN "A-"
    ELSE IF percentage >= 87 THEN "B+"
    ELSE IF percentage >= 83 THEN "B"
    ELSE IF percentage >= 80 THEN "B-"
    ELSE IF percentage >= 77 THEN "C+"
    ELSE IF percentage >= 73 THEN "C"
    ELSE IF percentage >= 70 THEN "C-"
    ELSE IF percentage >= 67 THEN "D+"
    ELSE IF percentage >= 63 THEN "D"
    ELSE IF percentage >= 60 THEN "D-"
    ELSE "F"

\* one row of downloadCSV: filename, score, percentage + '%', letter
\* grade, status
CsvRow(file) ==
    LET percentage == calculatePercentage(file.score, file.maxScore)
        letterGrade == getLetterGrade(percentage)
        status == IF percentage >= 70 THEN "Pass" ELSE "Needs Review"
    IN  <<file.filename, file.score, <<percentage, "%">>, letterGrade, status>>

\* processedResults.map(file => ...)
CsvRows(processedResults) ==
    [k \in 1..Len(processedResults) |-> CsvRow(processedResults[k])]

\* the largest maxScore of a result drawn
MaxPoints == 25

\* the results of one request: one graded file with any score up to any
\* maxScore (a filename rule worth score that passes and one other rule
\* worth the rest that fails give it)
ReportedResults ==
    {<<[filename |-> <<"a", ".", "p", "s", "d">>,
        score |-> pair[1], maxScore |-> pair[2]]>> :
        pair \in {p \in (0..MaxPoints) \X (0..MaxPoints) : p[1] <= p[2]}}

InitReport ==
    /\ callee = "report"
    /\ \E files \in ReportedResults : argument = [files |-> files]
    /\ returned = Null
    /\ IdleParse /\ IdleGrade /\ IdleBatch /\ IdleTpl

\* the server puts the summary into its response
Summarise ==
    /\ callee = "report"
    /\ returned = Null
    /\ returned' = [summary |-> Summary(argument.files),
                    exported |-> FALSE, rows |-> <<>>]
    /\ UNCHANGED <<callee, argument, parseVars, gradeVars, batchVars, tplVars>>

\* the page exports the results it holds
DownloadCSV ==
    /\ callee = "report"
    /\ returned # Null
    /\ ~returned.exported
    /\ argument.files # <<>>
    /\ returned' = [returned EXCEPT !.exported = TRUE,
                                    !.rows = CsvRows(argument.files)]
    /\ UNCHANGED <<callee, argument, parseVars, gradeVars, batchVars, tplVars>>

NextReport == Summarise \/ DownloadCSV

SpecReport == InitReport /\ [][NextReport]_vars

\* C29: the status of a file is the same wherever it is reported: for
\* every result with maxScore > 0 the file is counted as passed in the
\* summary exactly when its rounded percentage is at least 70, that is
\* exactly when its row of the exported CSV says Pass.
C29_SummaryAndCsvAgree ==
    (callee = "report" /\ returned # Null /\ returned.exported) =>
        LET files == argument.files
            scored == {k \in 1..Len(files) : files[k].maxScore > 0}
        IN  /\ \A k \in scored :
                  returned.rows[k][5] = "Pass"
                      <=> returned.rows[k][3][1] >= 70
            /\ returned.summary.passed
                  = Cardinality({k \in scored : returned.rows[k][5] = "Pass"})
            /\ returned.summary.failed
                  = Cardinality({k \in scored : returned.rows[k][5] # "Pass"})

\* ---------------------------------------------------------------------
\* The type of a layer (getLayerType, lines 591-599; extractLayers,
\* lines 434-511)

Shape == <<"S", "h", "a", "p", "e">>

\* one node with every combination of the capabilities the code looks at;
\* a node with children holds one raster layer
Nodes ==
    {[Leaf(Shape) EXCEPT !.hasText = c[1], !.hasAdjustment = c[2],
                         !.hasPlacedLayer = c[3], !.hasVectorMask = c[4],
                         !.hasVectorStroke = c[5], !.hasChildren = c[6],
                         !.children = IF c[6] THEN <<Leaf(Background)>>
                                      ELSE <<>>] :
        c \in [1..6 -> BOOLEAN]}

\* the node alone, and inside a group
NodeDocuments ==
    UNION {{ [psd |-> [DocLayered EXCEPT !.children = <<node>>],
              nodes |-> 1, node |-> node],
             [psd |-> [DocLayered EXCEPT !.children =
                          <<Group(<<"A", "r", "t">>, <<node>>)>>],
              nodes |-> 2, node |-> node] } : node \in Nodes}

InitNodes ==
    /\ callee = "extractLayers"
    /\ argument \in NodeDocuments
    /\ returned = Null
    /\ IdleParse /\ IdleGrade /\ IdleBatch /\ IdleTpl

NextNodes == ExtractLayers

SpecNodes == InitNodes /\ [][NextNodes]_vars

\* the types in their order of priority
TypePriority == <<"text", "adjustment", "smartObject", "shape", "group", "raster">>

\* the node has the capability the type stands for
Capable(node, type) ==
    CASE type = "text" -> node.hasText
      [] type = "adjustment" -> node.hasAdjustment
      [] type = "smartObject" -> node.hasPlacedLayer
      [] type = "shape" -> node.hasVectorMask \/ node.hasVectorStroke
      [] type = "group" -> node.hasChildren
      [] type = "raster" -> TRUE

\* the record of the layers says the layer is of the type
MarkedAs(info, type) ==
    \/ info.type = type
    \/ type = "text" /\ info.isText
    \/ type = "adjustment" /\ info.isAdjustment
    \/ type = "smartObject" /\ info.isSmartObject
    \/ type = "shape" /\ info.isVector

\* the type of the first capability in the order of priority the node has
FirstCapability(node) ==
    TypePriority[CHOOSE k \in 1..6 :
                    /\ Capable(node, TypePriority[k])
                    /\ \A j \in 1..(k - 1) : ~Capable(node, TypePriority[j])]

\* C30: each layer receives exactly one type, that of the first capability
\* it has in the order text, adjustment, smart object, vector, group,
\* raster, and the record of a layer with several capabilities marks it as
\* that type only, never as a type of lower priority as well.
C30_OneTypeByPriority ==
    (callee = "extractLayers" /\ returned # Null) =>
        \A k \in 1..Len(Layers) :
            Layers[k].name = Shape =>
                /\ Layers[k].type = FirstCapability(argument.node)
                /\ \A j \in 1..6 :
                      MarkedAs(Layers[k], TypePriority[j])
                          => TypePriority[j] = FirstCapability(argument.node)

====
